---- MODULE Spec2Model ----
(***************************************************************************)
(* World-graph synchronisation and navigation engine of world_explorer.   *)
(*                                                                         *)
(* Strings are sequences of one-character strings, so that trim() and      *)
(* toLowerCase() are computed and not assumed.  Null is the JavaScript     *)
(* null/undefined, distinct from the empty string <<>>.                    *)
(***************************************************************************)
EXTENDS Integers, Sequences, FiniteSets, TLC

\* ------------------------------------------------------------------------
\* Bounds of the model
\* ------------------------------------------------------------------------
MaxTurns == 3
MaxDescTurns == 2
MaxChain == 9
MaxFind == 6

\* ------------------------------------------------------------------------
\* Strings
\* ------------------------------------------------------------------------
Null == <<"null">>

IsSpace(c) == c = " "

toLowerCase_ch(c) ==
  CASE c = "A" -> "a"
    [] c = "B" -> "b"
    [] c = "C" -> "c"
    [] c = "D" -> "d"
    [] c = "E" -> "e"
    [] c = "F" -> "f"
    [] c = "G" -> "g"
    [] c = "H" -> "h"
    [] c = "I" -> "i"
    [] c = "J" -> "j"
    [] c = "K" -> "k"
    [] c = "L" -> "l"
    [] c = "M" -> "m"
    [] c = "N" -> "n"
    [] c = "O" -> "o"
    [] c = "P" -> "p"
    [] c = "Q" -> "q"
    [] c = "R" -> "r"
    [] c = "S" -> "s"
    [] c = "T" -> "t"
    [] c = "U" -> "u"
    [] c = "V" -> "v"
    [] c = "W" -> "w"
    [] c = "X" -> "x"
    [] c = "Y" -> "y"
    [] c = "Z" -> "z"
    [] OTHER -> c

toLowerCase(s) == [i \in 1..Len(s) |-> toLowerCase_ch(s[i])]

RECURSIVE trimStart(_)
trimStart(s) ==
  IF s = <<>> THEN <<>>
  ELSE IF IsSpace(Head(s)) THEN trimStart(Tail(s)) ELSE s

RECURSIVE trimEnd(_)
trimEnd(s) ==
  IF s = <<>> THEN <<>>
  ELSE IF IsSpace(s[Len(s)]) THEN trimEnd(SubSeq(s, 1, Len(s) - 1)) ELSE s

trim(s) == trimEnd(trimStart(s))

\* normalize(value) = value.trim().toLowerCase()
normalize(value) == toLowerCase(trim(value))

\* null for identifier-valued fields; identifiers are positive
NoId == 0

\* JavaScript truthiness of a string | null | undefined value
Truthy(s) == s # Null /\ s # <<>>

\* a || b on string | null values
OrElse(a, b) == IF Truthy(a) THEN a ELSE b

\* label used for an exit whose own label is blank (lib/gameplay/constants)
DEFAULT_EXIT_LABEL == <<"g", "o">>

\* depth bound of both breadth-first searches
MAX_DEPTH == 7

\* ------------------------------------------------------------------------
\* Graph helpers.  The graph is the sequence of its nodes in insertion
\* order (the order of Object.values); a node is stored under the key that
\* is its position, and a fresh identifier is the next free position.
\* ------------------------------------------------------------------------
HasKey(graph, id) == id \in 1..Len(graph)

CountConnections(graph) ==
  LET RECURSIVE Sum(_)
      Sum(i) == IF i = 0 THEN 0 ELSE Len(graph[i].connections) + Sum(i - 1)
  IN Sum(Len(graph))

\* Array.prototype.find / findIndex: the first of the indices S of the
\* elements that satisfy the test, 0 when there is none
FindIndex(S) ==
  IF S = {} THEN 0 ELSE CHOOSE i \in S : \A j \in S : i <= j

Last(seq) == seq[Len(seq)]

\* ------------------------------------------------------------------------
\* lib/gameplay/applyGameTurn.ts
\*
\* The functions below work on a record w = [graph, uuid, exits, resolves,
\* upserts]: graph is the world's graph being mutated, uuid the number of
\* item identifiers handed out so far, and the other three fields are
\* histories of what was done, read only by the properties.
\* ------------------------------------------------------------------------

\* variant: the second lookup compares the node's map-description only
MatchesMapDescription_mapOnly(location, normalizedMapDescription) ==
  /\ Truthy(location.mapDescription)
  /\ normalize(location.mapDescription) = normalizedMapDescription

\* ensureLocation, second lookup: the node's map-description or description
\* equals the normalised hint
MatchesMapDescription(location, normalizedMapDescription) ==
  LET locationMap ==
        IF Truthy(location.mapDescription)
        THEN normalize(location.mapDescription) ELSE Null
      locationDescription ==
        IF Truthy(location.description)
        THEN normalize(location.description) ELSE Null
  IN \/ (Truthy(locationMap) /\ locationMap = normalizedMapDescription)
     \/ (Truthy(locationDescription)
           /\ locationDescription = normalizedMapDescription)

\* variant: names compared as written
NameMatches_asWritten(location, name) ==
  location.locationName = name

NameMatches(location, name) ==
  normalize(location.locationName) = normalize(name)

\* variant: every node is given the identifier of the entry location
NewNode_sameId(id, name) ==
  [id |-> 1, locationName |-> name, description |-> Null,
   mapDescription |-> Null, discovered |-> FALSE, items |-> <<>>,
   connections |-> <<>>]

NewNode(id, name) ==
  [id |-> id, locationName |-> name, description |-> Null,
   mapDescription |-> Null, discovered |-> FALSE, items |-> <<>>,
   connections |-> <<>>]

\* ensureLocation(world, name, mapDescription): the key of the node found or
\* created, and the graph with the new node when there was none
ensureLocationKey(graph, name, mapDescription) ==
  LET byName ==
        FindIndex({i \in 1..Len(graph) : NameMatches(graph[i], name)})
      byMapDescription ==
        IF Truthy(mapDescription) /\ Len(normalize(mapDescription)) > 0
        THEN FindIndex({i \in 1..Len(graph) :
                 MatchesMapDescription(graph[i], normalize(mapDescription))})
        ELSE 0
  IN IF byName # 0 THEN byName
     ELSE IF byMapDescription # 0 THEN byMapDescription
     ELSE Len(graph) + 1

\* ensureLocation: world.graph[id] = node for a key that is not in the graph
withNode(graph, key, name) ==
  IF HasKey(graph, key) THEN graph ELSE Append(graph, NewNode(key, name))

\* ensureLocation, given the key of the node found or to be created
ensureLocationAt(w, name, mapDescription, key) ==
  [w |-> [w EXCEPT !.graph = withNode(w.graph, key, name),
                   !.resolves = Append(@, [name |-> name,
                                           mapDescription |-> mapDescription,
                                           key |-> key,
                                           before |-> w.graph,
                                           after |-> withNode(w.graph, key, name)])],
   key |-> key]

ensureLocation(w, name, mapDescription) ==
  ensureLocationAt(w, name, mapDescription,
                   ensureLocationKey(w.graph, name, mapDescription))

\* variant: an update marks the connection bidirectional whatever the exit says
upsertConnection_flagSet(graph, source, target, label, bidirectional) ==
  LET connections == graph[source].connections
      existingIndex ==
        FindIndex({i \in 1..Len(connections) :
                     connections[i].targetId = graph[target].id})
      existing == connections[existingIndex]
  IN IF existingIndex > 0
     THEN [graph EXCEPT ![source].connections[existingIndex] =
             [existing EXCEPT
                !.label = OrElse(label, OrElse(existing.label, DEFAULT_EXIT_LABEL)),
                !.bidirectional = TRUE]]
     ELSE [graph EXCEPT ![source].connections =
             Append(@, [id |-> CountConnections(graph) + 1,
                        targetId |-> graph[target].id,
                        label |-> OrElse(label, DEFAULT_EXIT_LABEL),
                        bidirectional |-> bidirectional])]

\* variant: a new connection replaces the source's connections
upsertConnection_replaceAll(graph, source, target, label, bidirectional) ==
  LET connections == graph[source].connections
      existingIndex ==
        FindIndex({i \in 1..Len(connections) :
                     connections[i].targetId = graph[target].id})
      existing == connections[existingIndex]
  IN IF existingIndex > 0
     THEN [graph EXCEPT ![source].connections[existingIndex] =
             [existing EXCEPT
                !.label = OrElse(label, OrElse(existing.label, DEFAULT_EXIT_LABEL)),
                !.bidirectional = existing.bidirectional \/ bidirectional]]
     ELSE [graph EXCEPT ![source].connections =
             <<[id |-> CountConnections(graph) + 1,
                targetId |-> graph[target].id,
                label |-> OrElse(label, DEFAULT_EXIT_LABEL),
                bidirectional |-> bidirectional]>>]

\* variant: a connection is pushed without looking for an existing one
upsertConnection_alwaysNew(graph, source, target, label, bidirectional) ==
  [graph EXCEPT ![source].connections =
     Append(@, [id |-> CountConnections(graph) + 1,
                targetId |-> graph[target].id,
                label |-> OrElse(label, DEFAULT_EXIT_LABEL),
                bidirectional |-> bidirectional])]

\* variant: an existing connection is updated and moved to the end of the
\* node's list
upsertConnection_moveLast(graph, source, target, label, bidirectional) ==
  LET connections == graph[source].connections
      existingIndex ==
        FindIndex({i \in 1..Len(connections) :
                     connections[i].targetId = graph[target].id})
      existing == connections[existingIndex]
  IN IF existingIndex > 0
     THEN [graph EXCEPT ![source].connections =
             Append(SubSeq(connections, 1, existingIndex - 1)
                      \o SubSeq(connections, existingIndex + 1, Len(connections)),
                    [existing EXCEPT
                       !.label = OrElse(label, OrElse(existing.label, DEFAULT_EXIT_LABEL)),
                       !.bidirectional = existing.bidirectional \/ bidirectional])]
     ELSE [graph EXCEPT ![source].connections =
             Append(@, [id |-> CountConnections(graph) + 1,
                        targetId |-> graph[target].id,
                        label |-> OrElse(label, DEFAULT_EXIT_LABEL),
                        bidirectional |-> bidirectional])]

\* upsertConnection(source, target, label, bidirectional); source and target
\* are the keys of the two node objects
upsertConnection(graph, source, target, label, bidirectional) ==
  LET connections == graph[source].connections
      existingIndex ==
        FindIndex({i \in 1..Len(connections) :
                     connections[i].targetId = graph[target].id})
      existing == connections[existingIndex]
  IN IF existingIndex > 0
     THEN [graph EXCEPT ![source].connections[existingIndex] =
             [existing EXCEPT
                !.label = OrElse(label, OrElse(existing.label, DEFAULT_EXIT_LABEL)),
                !.bidirectional = existing.bidirectional \/ bidirectional]]
     ELSE [graph EXCEPT ![source].connections =
             Append(@, [id |-> CountConnections(graph) + 1,
                        targetId |-> graph[target].id,
                        label |-> OrElse(label, DEFAULT_EXIT_LABEL),
                        bidirectional |-> bidirectional])]

\* variant: a target is enqueued whether or not it has been visited
RECURSIVE hasPathFor_unvisited(_, _, _, _, _, _, _)
hasPathFor_unvisited(connections, i, toId, minDepth, depth, queue, visited) ==
  IF i > Len(connections)
  THEN [found |-> FALSE, queue |-> queue, visited |-> visited]
  ELSE LET conn == connections[i]
       IN IF conn.targetId = toId /\ depth + 1 >= minDepth
          THEN [found |-> TRUE, queue |-> queue, visited |-> visited]
          ELSE hasPathFor_unvisited(connections, i + 1, toId, minDepth, depth,
                          Append(queue, [id |-> conn.targetId, depth |-> depth + 1]),
                          visited \cup {conn.targetId})

\* hasPath: the for loop over the connections of the dequeued node
RECURSIVE hasPathFor(_, _, _, _, _, _, _)
hasPathFor(connections, i, toId, minDepth, depth, queue, visited) ==
  IF i > Len(connections)
  THEN [found |-> FALSE, queue |-> queue, visited |-> visited]
  ELSE LET conn == connections[i]
       IN IF conn.targetId = toId /\ depth + 1 >= minDepth
          THEN [found |-> TRUE, queue |-> queue, visited |-> visited]
          ELSE IF conn.targetId \notin visited
          THEN hasPathFor(connections, i + 1, toId, minDepth, depth,
                          Append(queue, [id |-> conn.targetId, depth |-> depth + 1]),
                          visited \cup {conn.targetId})
          ELSE hasPathFor(connections, i + 1, toId, minDepth, depth,
                          queue, visited)

\* variant: nodes one step beyond MAX_DEPTH are still expanded
RECURSIVE hasPathWhile_deeper(_, _, _, _, _)
hasPathWhile_deeper(graph, toId, minDepth, queue, visited) ==
  IF queue = <<>> THEN FALSE
  ELSE LET current == Head(queue)
       IN IF current.depth >= MAX_DEPTH + 1
          THEN hasPathWhile_deeper(graph, toId, minDepth, Tail(queue), visited)
          ELSE IF ~HasKey(graph, current.id)
          THEN hasPathWhile_deeper(graph, toId, minDepth, Tail(queue), visited)
          ELSE LET r == hasPathFor(graph[current.id].connections, 1, toId,
                                   minDepth, current.depth, Tail(queue), visited)
               IN IF r.found THEN TRUE
                  ELSE hasPathWhile_deeper(graph, toId, minDepth,
                                           r.queue, r.visited)

\* hasPath: the while loop over the queue
RECURSIVE hasPathWhile(_, _, _, _, _)
hasPathWhile(graph, toId, minDepth, queue, visited) ==
  IF queue = <<>> THEN FALSE
  ELSE LET current == Head(queue)
       IN IF current.depth >= MAX_DEPTH
          THEN hasPathWhile(graph, toId, minDepth, Tail(queue), visited)
          ELSE IF ~HasKey(graph, current.id)
          THEN hasPathWhile(graph, toId, minDepth, Tail(queue), visited)
          ELSE LET r == hasPathFor(graph[current.id].connections, 1, toId,
                                   minDepth, current.depth, Tail(queue), visited)
               IN IF r.found THEN TRUE
                  ELSE hasPathWhile(graph, toId, minDepth, r.queue, r.visited)

hasPath(graph, fromId, toId, minDepth) ==
  IF fromId = toId THEN FALSE
  ELSE hasPathWhile(graph, toId, minDepth,
                    <<[id |-> fromId, depth |-> 0]>>, {fromId})

\* syncExits: exit.label?.trim() || DEFAULT_EXIT_LABEL
exitLabel(exit) ==
  OrElse(IF exit.label = Null THEN Null ELSE trim(exit.label),
         DEFAULT_EXIT_LABEL)

\* variant: the reverse connection is never written
connectExit_forwardOnly(graph, source, target, label, bidirectional) ==
  upsertConnection(graph, source, target, label, bidirectional)

\* syncExits: the two upserts made when no indirect path exists
connectExit(graph, source, target, label, bidirectional) ==
  IF bidirectional
  THEN upsertConnection(
         upsertConnection(graph, source, target, label, bidirectional),
         target, source, label, bidirectional)
  ELSE upsertConnection(graph, source, target, label, bidirectional)

\* syncExits: the history entry of one exit; before, mid and after are the
\* graph before the exit, after resolving its target and after the upserts
exitDone(w, r, source, exit, pathExists, after) ==
  [r.w EXCEPT !.graph = after,
              !.exits = Append(@, [source |-> source, target |-> r.key,
                                   exit |-> exit, pathExists |-> pathExists,
                                   before |-> w.graph, mid |-> r.w.graph,
                                   after |-> after])]

\* syncExits: if (!pathExists) { upsertConnection ... } else { skip }
syncExitPath(w, r, source, exit, pathExists) ==
  exitDone(w, r, source, exit, pathExists,
           IF pathExists THEN r.w.graph
           ELSE connectExit(r.w.graph, source, r.key, exitLabel(exit),
                            exit.bidirectional))

\* syncExits: the exit once its target r.key is resolved
syncExitTarget(w, r, source, exit) ==
  syncExitPath(w, r, source, exit,
               hasPath(r.w.graph, r.w.graph[source].id, r.w.graph[r.key].id, 2))

\* syncExits: the body of payload.exits.forEach for one exit
syncExit(w, source, exit) ==
  syncExitTarget(w, ensureLocation(w, exit.name, Null), source, exit)

RECURSIVE syncExitsFrom(_, _, _, _)
syncExitsFrom(w, source, exits, i) ==
  IF i > Len(exits) THEN w
  ELSE syncExitsFrom(syncExit(w, source, exits[i]), source, exits, i + 1)

syncExits(w, source, payload) == syncExitsFrom(w, source, payload.exits, 1)

\* variant: the candidate is returned as it is, untrimmed
RECURSIVE resolveMapDescription_untrimmed(_)
resolveMapDescription_untrimmed(all) ==
  IF all = <<>> THEN Null
  ELSE IF ~Truthy(Head(all)) THEN resolveMapDescription_untrimmed(Tail(all))
  ELSE IF Len(trim(Head(all))) > 0 THEN Head(all)
  ELSE resolveMapDescription_untrimmed(Tail(all))

\* resolveMapDescription(primary, ...fallbacks) over the list of candidates
RECURSIVE resolveMapDescription(_)
resolveMapDescription(all) ==
  IF all = <<>> THEN Null
  ELSE IF ~Truthy(Head(all)) THEN resolveMapDescription(Tail(all))
  ELSE IF Len(trim(Head(all))) > 0 THEN trim(Head(all))
  ELSE resolveMapDescription(Tail(all))

\* mergeItems: mapByName.get(key), the last existing item of that name
mapByNameGet(existingItems, key) ==
  LET S == {i \in 1..Len(existingItems) : normalize(existingItems[i].name) = key}
  IN IF S = {} THEN 0 ELSE CHOOSE i \in S : \A j \in S : j <= i

\* mergeItems: the item made of one descriptor; existing is the position of
\* the existing item of that name, 0 when there is none
mergedItem(existingItems, descriptor, ownerCharacterId, uuid, existing) ==
  [id |-> IF existing = 0 THEN uuid + 1 ELSE existingItems[existing].id,
   name |-> descriptor.name,
   description |-> descriptor.description,
   portable |-> descriptor.portable,
   ownerCharacterId |-> ownerCharacterId]

\* mergeItems(existingItems, descriptors, ownerCharacterId); uuid counts the
\* identifiers handed out
RECURSIVE mergeItemsFrom(_, _, _, _, _, _)
mergeItemsFrom(existingItems, descriptors, ownerCharacterId, uuid, i, acc) ==
  IF i > Len(descriptors) THEN [items |-> acc, uuid |-> uuid]
  ELSE LET existing == mapByNameGet(existingItems,
                                    normalize(descriptors[i].name))
       IN mergeItemsFrom(existingItems, descriptors, ownerCharacterId,
                         IF existing = 0 THEN uuid + 1 ELSE uuid, i + 1,
                         Append(acc, mergedItem(existingItems, descriptors[i],
                                                ownerCharacterId, uuid,
                                                existing)))

\* variant: the existing items that the descriptors do not name are kept in
\* front of the merged ones
mergeItems_appendOnly(existingItems, descriptors, ownerCharacterId, uuid) ==
  LET named(item) ==
        \E i \in 1..Len(descriptors) :
          normalize(descriptors[i].name) = normalize(item.name)
      kept(item) == ~named(item)
  IN mergeItemsFrom(existingItems, descriptors, ownerCharacterId, uuid, 1,
                    SelectSeq(existingItems, kept))

mergeItems(existingItems, descriptors, ownerCharacterId, uuid) ==
  mergeItemsFrom(existingItems, descriptors, ownerCharacterId, uuid, 1, <<>>)

\* variant: the discovered flag is assigned, not or-ed
updatedNode_flagAssigned(found, payload, discovered, fallbackMapDescription) ==
  [found EXCEPT
     !.locationName =
        IF normalize(found.locationName) = normalize(payload.name)
        THEN payload.name ELSE found.locationName,
     !.description = payload.description,
     !.mapDescription =
        resolveMapDescription(<<payload.mapDescription, fallbackMapDescription,
                                found.mapDescription, payload.description>>),
     !.discovered = discovered]

\* upsertLocationFromPayload: the assignments to the resolved node, items
\* apart
updatedNode(found, payload, discovered, fallbackMapDescription) ==
  [found EXCEPT
     !.locationName =
        IF normalize(found.locationName) = normalize(payload.name)
        THEN payload.name ELSE found.locationName,
     !.description = payload.description,
     !.mapDescription =
        resolveMapDescription(<<payload.mapDescription, fallbackMapDescription,
                                found.mapDescription, payload.description>>),
     !.discovered = found.discovered \/ discovered]

\* upsertLocationFromPayload: the node written back, then syncExits
upsertNode(r, payload, fallbackMapDescription, node, merged) ==
  [w |-> syncExits(
           [r.w EXCEPT
              !.graph[r.key] = [node EXCEPT !.items = merged.items],
              !.uuid = merged.uuid,
              !.upserts = Append(@, [key |-> r.key, payload |-> payload,
                                     fallback |-> fallbackMapDescription,
                                     found |-> r.w.graph[r.key],
                                     node |-> [node EXCEPT !.items = merged.items]])],
           r.key, payload),
   key |-> r.key]

\* upsertLocationFromPayload, given the result r of ensureLocation
upsertResolved(r, payload, discovered, fallbackMapDescription) ==
  upsertNode(r, payload, fallbackMapDescription,
             updatedNode(r.w.graph[r.key], payload, discovered,
                         fallbackMapDescription),
             mergeItems(r.w.graph[r.key].items, payload.items, NoId, r.w.uuid))

\* upsertLocationFromPayload(world, payload, options, fallbackMapDescription)
upsertLocationFromPayload(w, payload, discovered, fallbackMapDescription) ==
  upsertResolved(ensureLocation(w, payload.name, payload.mapDescription),
                 payload, discovered, fallbackMapDescription)

RECURSIVE upsertDiscoveries(_, _, _)
upsertDiscoveries(w, discoveries, i) ==
  IF i > Len(discoveries) THEN w
  ELSE upsertDiscoveries(
         upsertLocationFromPayload(w, discoveries[i], FALSE, Null).w,
         discoveries, i + 1)

\* variant: no copy is made, the function works on the caller's object
structuredClone_alias(address) == address

\* structuredClone(value): the address of a new object; the objects of one
\* call live in a record of four addresses
structuredClone(address) ==
  IF address = "world" THEN "worldClone" ELSE "characterClone"

\* applyGameTurn: characterClone.currentLocationId ?? worldClone.entryLocationId
previousLocation(worldClone, characterClone) ==
  IF characterClone.currentLocationId # NoId
  THEN characterClone.currentLocationId
  ELSE worldClone.entryLocationId

\* variant: a turn that moved the character is summarised too
actionSummary_moved(previousLocationId, playerLocationId, turn, playerMessage, isInitial, now) ==
  IF ~isInitial /\ Len(trim(playerMessage)) > 0
  THEN [playerMessage |-> trim(playerMessage),
        gmResponse |-> turn.narration, occurredAt |-> now,
        locationId |-> playerLocationId]
  ELSE Null

\* applyGameTurn: the action summary attached to the narrator's entry
actionSummary(previousLocationId, playerLocationId, turn, playerMessage, isInitial, now) ==
  IF ~isInitial /\ Len(trim(playerMessage)) > 0
       /\ ~(playerLocationId # previousLocationId)
  THEN [playerMessage |-> trim(playerMessage),
        gmResponse |-> turn.narration, occurredAt |-> now,
        locationId |-> playerLocationId]
  ELSE Null

\* variant: the narrator's entry is filed under the previous location
newEntries_previous(previousLocationId, playerLocationId, turn, playerMessage, isInitial, now) ==
  (IF ~isInitial /\ Truthy(trim(playerMessage))
   THEN <<[id |-> 2 * now + 1, locationId |-> previousLocationId,
           author |-> "player", message |-> trim(playerMessage),
           createdAt |-> now, actionSummary |-> Null]>>
   ELSE <<>>)
  \o <<[id |-> 2 * now + 2, locationId |-> previousLocationId,
        author |-> "gm", message |-> turn.narration, createdAt |-> now,
        actionSummary |->
          actionSummary(previousLocationId, playerLocationId, turn,
                        playerMessage, isInitial, now)]>>

\* variant: the player's message is logged on the initial turn too
newEntries_initialToo(previousLocationId, playerLocationId, turn, playerMessage, isInitial, now) ==
  (IF Truthy(trim(playerMessage))
   THEN <<[id |-> 2 * now + 1, locationId |-> previousLocationId,
           author |-> "player", message |-> trim(playerMessage),
           createdAt |-> now, actionSummary |-> Null]>>
   ELSE <<>>)
  \o <<[id |-> 2 * now + 2, locationId |-> playerLocationId,
        author |-> "gm", message |-> turn.narration, createdAt |-> now,
        actionSummary |->
          actionSummary(previousLocationId, playerLocationId, turn,
                        playerMessage, isInitial, now)]>>

\* applyGameTurn: the entries pushed for the player's message and for the
\* narration
newEntries(previousLocationId, playerLocationId, turn, playerMessage, isInitial, now) ==
  (IF ~isInitial /\ Truthy(trim(playerMessage))
   THEN <<[id |-> 2 * now + 1, locationId |-> previousLocationId,
           author |-> "player", message |-> trim(playerMessage),
           createdAt |-> now, actionSummary |-> Null]>>
   ELSE <<>>)
  \o <<[id |-> 2 * now + 2, locationId |-> playerLocationId,
        author |-> "gm", message |-> turn.narration, createdAt |-> now,
        actionSummary |->
          actionSummary(previousLocationId, playerLocationId, turn,
                        playerMessage, isInitial, now)]>>

\* variant: the character is pushed on every turn
withOwner_always(ownerCharacterIds, characterId) ==
  Append(ownerCharacterIds, characterId)

\* applyGameTurn: ownerCharacterIds.push unless it includes the character
withOwner(ownerCharacterIds, characterId) ==
  IF \E i \in 1..Len(ownerCharacterIds) : ownerCharacterIds[i] = characterId
  THEN ownerCharacterIds
  ELSE Append(ownerCharacterIds, characterId)

\* variant: the world's entry location follows the character
written_entryMoved(heap, worldClone, characterClone, w, playerLocationId, inventory, now) ==
  [[heap EXCEPT
      ![worldClone].graph = w.graph,
      ![worldClone].entryLocationId = playerLocationId,
      ![worldClone].ownerCharacterIds = withOwner(@, heap[characterClone].id),
      ![worldClone].updatedAt = now]
   EXCEPT
      ![characterClone].currentWorldId = heap[worldClone].id,
      ![characterClone].currentLocationId = playerLocationId,
      ![characterClone].inventory = inventory.items]

\* applyGameTurn: the objects at worldClone and characterClone after their
\* assignments; w is the work of the upserts, inventory that of mergeItems
written(heap, worldClone, characterClone, w, playerLocationId, inventory, now) ==
  [[heap EXCEPT
      ![worldClone].graph = w.graph,
      ![worldClone].ownerCharacterIds = withOwner(@, heap[characterClone].id),
      ![worldClone].updatedAt = now]
   EXCEPT
      ![characterClone].currentWorldId = heap[worldClone].id,
      ![characterClone].currentLocationId = playerLocationId,
      ![characterClone].inventory = inventory.items]

\* applyGameTurn: the value returned, with the caller's two objects as they
\* are when the call returns (args) and the histories of the call
returned(heap, worldClone, characterClone, w, playerKey, inventory, entries, previousLocationId) ==
  [world |-> heap[worldClone],
   character |-> heap[characterClone],
   newEntries |-> entries,
   args |-> [world |-> heap["world"], character |-> heap["character"]],
   previousLocationId |-> previousLocationId,
   playerKey |-> playerKey,
   uuid |-> inventory.uuid,
   exits |-> w.exits, resolves |-> w.resolves, upserts |-> w.upserts]

\* applyGameTurn from the inventory merge on
applyInventory(heap, worldClone, characterClone, turn, playerMessage, isInitial, now, playerKey, w, inventory) ==
  returned(written(heap, worldClone, characterClone, w, w.graph[playerKey].id,
                   inventory, now),
           worldClone, characterClone, w, playerKey, inventory,
           newEntries(previousLocation(heap[worldClone], heap[characterClone]),
                      w.graph[playerKey].id, turn, playerMessage, isInitial, now),
           previousLocation(heap[worldClone], heap[characterClone]))

\* applyGameTurn from the end of the discoveries on
applyCharacter(heap, worldClone, characterClone, turn, playerMessage, isInitial, now, playerKey, w) ==
  applyInventory(heap, worldClone, characterClone, turn, playerMessage,
                 isInitial, now, playerKey, w,
                 mergeItems(heap[characterClone].inventory, turn.inventory.items,
                            heap[characterClone].id, w.uuid))

\* applyGameTurn from the discoveries on; player is the result of the upsert
\* of turn.playerLocation
applyDiscoveries(heap, worldClone, characterClone, turn, playerMessage, isInitial, now, player) ==
  applyCharacter(heap, worldClone, characterClone, turn, playerMessage,
                 isInitial, now, player.key,
                 upsertDiscoveries(player.w, turn.discoveries, 1))

\* applyGameTurn on the objects of the heap: worldClone and characterClone
\* are the addresses of the objects it works on
applyOnClones(heap, worldClone, characterClone, turn, playerMessage, isInitial, now, uuid) ==
  applyDiscoveries(heap, worldClone, characterClone, turn, playerMessage,
                   isInitial, now,
                   upsertLocationFromPayload(
                     [graph |-> heap[worldClone].graph, uuid |-> uuid,
                      exits |-> <<>>, resolves |-> <<>>, upserts |-> <<>>],
                     turn.playerLocation, TRUE, turn.mapDescription))

\* applyGameTurn({world, character, turn, playerMessage, isInitial}); now is
\* the reading of the clock and uuid the number of item identifiers in use
applyGameTurn(world, character, turn, playerMessage, isInitial, now, uuid) ==
  applyOnClones([world |-> world, character |-> character,
                 worldClone |-> world, characterClone |-> character],
                structuredClone("world"), structuredClone("character"),
                turn, playerMessage, isInitial, now, uuid)

\* ------------------------------------------------------------------------
\* lib/llm/navigationTools.ts
\* ------------------------------------------------------------------------
LocationInfo(location) ==
  [id |-> location.id, name |-> location.locationName,
   mapDescription |->
     OrElse(location.mapDescription, OrElse(location.description, <<>>))]

\* getRoute: pathInfo, the infos of the path's ids that are keys of the graph
RECURSIVE pathInfo(_, _)
pathInfo(graph, fullPath) ==
  IF fullPath = <<>> THEN <<>>
  ELSE IF HasKey(graph, Head(fullPath))
  THEN <<LocationInfo(graph[Head(fullPath)])>> \o pathInfo(graph, Tail(fullPath))
  ELSE pathInfo(graph, Tail(fullPath))

\* variant: the destination is not appended to the path found
RECURSIVE getRouteFor_short(_, _, _, _, _, _)
getRouteFor_short(connections, i, toId, path, queue, visited) ==
  IF i > Len(connections)
  THEN [found |-> FALSE, fullPath |-> <<>>, queue |-> queue, visited |-> visited]
  ELSE LET targetId == connections[i].targetId
       IN IF targetId = toId
          THEN [found |-> TRUE, fullPath |-> path,
                queue |-> queue, visited |-> visited]
          ELSE IF targetId \notin visited
          THEN getRouteFor_short(connections, i + 1, toId, path,
                                 Append(queue, [id |-> targetId,
                                                path |-> Append(path, targetId)]),
                                 visited \cup {targetId})
          ELSE getRouteFor_short(connections, i + 1, toId, path, queue, visited)

\* getRoute: the for loop over the connections of the dequeued node
RECURSIVE getRouteFor(_, _, _, _, _, _)
getRouteFor(connections, i, toId, path, queue, visited) ==
  IF i > Len(connections)
  THEN [found |-> FALSE, fullPath |-> <<>>, queue |-> queue, visited |-> visited]
  ELSE LET targetId == connections[i].targetId
       IN IF targetId = toId
          THEN [found |-> TRUE, fullPath |-> Append(path, targetId),
                queue |-> queue, visited |-> visited]
          ELSE IF targetId \notin visited
          THEN getRouteFor(connections, i + 1, toId, path,
                           Append(queue, [id |-> targetId,
                                          path |-> Append(path, targetId)]),
                           visited \cup {targetId})
          ELSE getRouteFor(connections, i + 1, toId, path, queue, visited)

\* variant: nodes whose path has MAX_DEPTH elements are not expanded either
RECURSIVE getRouteWhile_early(_, _, _, _)
getRouteWhile_early(graph, toId, queue, visited) ==
  IF queue = <<>>
  THEN [exists |-> FALSE, path |-> <<>>, totalDistance |-> -1]
  ELSE LET current == Head(queue)
       IN IF Len(current.path) >= MAX_DEPTH
          THEN getRouteWhile_early(graph, toId, Tail(queue), visited)
          ELSE IF ~HasKey(graph, current.id)
          THEN getRouteWhile_early(graph, toId, Tail(queue), visited)
          ELSE LET r == getRouteFor(graph[current.id].connections, 1, toId,
                                    current.path, Tail(queue), visited)
               IN IF r.found
                  THEN [exists |-> TRUE, path |-> pathInfo(graph, r.fullPath),
                        totalDistance |-> Len(r.fullPath) - 1]
                  ELSE getRouteWhile_early(graph, toId, r.queue, r.visited)

\* getRoute: the while loop over the queue
RECURSIVE getRouteWhile(_, _, _, _)
getRouteWhile(graph, toId, queue, visited) ==
  IF queue = <<>>
  THEN [exists |-> FALSE, path |-> <<>>, totalDistance |-> -1]
  ELSE LET current == Head(queue)
       IN IF Len(current.path) > MAX_DEPTH
          THEN getRouteWhile(graph, toId, Tail(queue), visited)
          ELSE IF ~HasKey(graph, current.id)
          THEN getRouteWhile(graph, toId, Tail(queue), visited)
          ELSE LET r == getRouteFor(graph[current.id].connections, 1, toId,
                                    current.path, Tail(queue), visited)
               IN IF r.found
                  THEN [exists |-> TRUE, path |-> pathInfo(graph, r.fullPath),
                        totalDistance |-> Len(r.fullPath) - 1]
                  ELSE getRouteWhile(graph, toId, r.queue, r.visited)

getRoute(fromId, toId, graph) ==
  IF fromId = toId
  THEN [exists |-> TRUE,
        path |-> IF HasKey(graph, fromId)
                 THEN <<LocationInfo(graph[fromId])>> ELSE <<>>,
        totalDistance |-> 0]
  ELSE getRouteWhile(graph, toId, <<[id |-> fromId, path |-> <<fromId>>]>>,
                     {fromId})

\* String.prototype.startsWith / includes
startsWith(s, t) == Len(t) <= Len(s) /\ SubSeq(s, 1, Len(t)) = t

includes(s, t) ==
  \E i \in 0..(Len(s) - Len(t)) : SubSeq(s, i + 1, i + Len(t)) = t

\* String.prototype.split(/\s+/): word is the word being read
RECURSIVE splitWords(_, _)
splitWords(s, word) ==
  IF s = <<>> THEN <<word>>
  ELSE IF IsSpace(Head(s))
  THEN <<word>> \o splitWords(trimStart(Tail(s)), <<>>)
  ELSE splitWords(Tail(s), Append(word, Head(s)))

split(s) == splitWords(s, <<>>)

\* similarities are counted in 600ths: 1.0 is 600, 0.3 is 180
SIMILARITY_UNIT == 600
THRESHOLD == 180
TOP == 5

\* findLocationByName: the words of the search term found in the name or in
\* the description
matchedWords(words, locationName, description) ==
  {i \in 1..Len(words) :
     includes(locationName, words[i]) \/ includes(description, words[i])}

\* findLocationByName: the similarity of one location, the first rule that
\* applies
similarityOf(locationName, description, searchTerm) ==
  IF locationName = searchTerm THEN 600
  ELSE IF startsWith(locationName, searchTerm) THEN 540
  ELSE IF includes(locationName, searchTerm) THEN 480
  ELSE IF includes(description, searchTerm) THEN 360
  ELSE (Cardinality(matchedWords(split(searchTerm), locationName, description))
          * 300) \div Len(split(searchTerm))

similarity(location, searchTerm) ==
  similarityOf(toLowerCase(location.locationName),
               toLowerCase(OrElse(location.mapDescription,
                                  OrElse(location.description, <<>>))),
               searchTerm)

LocationMatch(location, searchTerm) ==
  [id |-> location.id, name |-> location.locationName,
   mapDescription |->
     OrElse(location.mapDescription, OrElse(location.description, <<>>)),
   similarity |-> similarity(location, searchTerm)]

\* findLocationByName: the for loop that collects the matches
RECURSIVE collectMatches(_, _, _)
collectMatches(graph, i, searchTerm) ==
  IF i > Len(graph) THEN <<>>
  ELSE (IF similarity(graph[i], searchTerm) > THRESHOLD
        THEN <<LocationMatch(graph[i], searchTerm)>> ELSE <<>>)
       \o collectMatches(graph, i + 1, searchTerm)

\* variant: a match is put before the matches of the same similarity
insertMatch_beforeEqual(sorted, match) ==
  LET before == {i \in 1..Len(sorted) : sorted[i].similarity > match.similarity}
  IN SubSeq(sorted, 1, Cardinality(before)) \o <<match>>
       \o SubSeq(sorted, Cardinality(before) + 1, Len(sorted))

\* Array.prototype.sort with (a, b) => b.similarity - a.similarity, a stable
\* sort: a match goes behind the sorted matches that are not smaller
insertMatch(sorted, match) ==
  LET before == {i \in 1..Len(sorted) : sorted[i].similarity >= match.similarity}
  IN SubSeq(sorted, 1, Cardinality(before)) \o <<match>>
       \o SubSeq(sorted, Cardinality(before) + 1, Len(sorted))

RECURSIVE sortMatches(_, _, _)
sortMatches(matches, i, sorted) ==
  IF i > Len(matches) THEN sorted
  ELSE sortMatches(matches, i + 1, insertMatch(sorted, matches[i]))

\* Array.prototype.slice(0, n)
slice(s, n) == SubSeq(s, 1, IF Len(s) < n THEN Len(s) ELSE n)

findLocationByName(rawName, graph) ==
  slice(sortMatches(collectMatches(graph, 1, trim(toLowerCase(rawName))),
                    1, <<>>),
        TOP)

\* ------------------------------------------------------------------------
\* State
\* ------------------------------------------------------------------------
VARIABLES
  world,      \* the world as last saved by the caller
  character,  \* the character as last saved by the caller
  uuid,       \* number of item identifiers handed out by randomUUID
  now,        \* the clock read by new Date()
  call,       \* the last applyGameTurn call: arguments, result, histories
  route,      \* the last getRoute query and its answer
  requests    \* the session POST requests received so far, by arrival

vars == <<world, character, uuid, now, call, route, requests>>

\* name of the entry location given by createWorld
ENTRY_NAME == <<"H", "u", "b">>

WORLD_ID == 1
CHARACTER_ID == 1

\* createWorld: one undiscovered entry node without connections
createWorld ==
  [id |-> WORLD_ID, entryLocationId |-> 1,
   graph |-> <<NewNode(1, ENTRY_NAME)>>,
   ownerCharacterIds |-> <<>>, updatedAt |-> 0]

\* createCharacter: no location yet, empty inventory
createCharacter ==
  [id |-> CHARACTER_ID, inventory |-> <<>>, currentWorldId |-> NoId,
   currentLocationId |-> NoId]

NoCall == [done |-> FALSE]

Init ==
  /\ world = createWorld
  /\ character = createCharacter
  /\ uuid = 0
  /\ now = 0
  /\ call = NoCall
  /\ route = NoCall
  /\ requests = <<>>

\* One turn of the session handler: applyGameTurn on the saved world and
\* character, then saveWorld / saveCharacter of the returned snapshots.
Save(turn, playerMessage, isInitial, r) ==
  /\ world' = r.world
  /\ character' = r.character
  /\ uuid' = r.uuid
  /\ now' = now + 1
  /\ call' = [done |-> TRUE,
              world |-> world, character |-> character,
              turn |-> turn, playerMessage |-> playerMessage,
              isInitial |-> isInitial, result |-> r]
  /\ UNCHANGED <<route, requests>>

ApplyGameTurn(turn, playerMessage, isInitial) ==
  /\ now < MaxTurns
  /\ Save(turn, playerMessage, isInitial,
          applyGameTurn(world, character, turn, playerMessage, isInitial,
                        now + 1, uuid))

\* ------------------------------------------------------------------------
\* Inputs
\* ------------------------------------------------------------------------
Exit(name, label, bidirectional) ==
  [name |-> name, label |-> label, bidirectional |-> bidirectional]

Payload(name, mapDescription, description, items, exits) ==
  [name |-> name, mapDescription |-> mapDescription,
   description |-> description, items |-> items, exits |-> exits]

Turn(playerLocation, mapDescription, discoveries, items) ==
  [narration |-> <<"n">>, mapDescription |-> mapDescription,
   playerLocation |-> playerLocation, discoveries |-> discoveries,
   inventory |-> [items |-> items]]

Item(name, description, portable) ==
  [name |-> name, description |-> description, portable |-> portable]

\* Spec: turns that walk between three places and declare at most one exit.
\* The place "a" is named in two spellings.
Names == {<<" ", "A">>, <<"b">>, <<"c">>}
ExitNames == {<<"a">>, <<"b">>, <<"c">>}

ExitLists ==
  {<<>>} \cup {<<Exit(n, Null, b)>> : n \in ExitNames, b \in BOOLEAN}

GraphTurns ==
  {Turn(Payload(n, <<>>, <<"d">>, <<>>, e), <<>>, <<>>, <<>>) :
     n \in Names, e \in ExitLists}

Next ==
  \E turn \in GraphTurns : ApplyGameTurn(turn, <<"h", "i">>, FALSE)

Spec == Init /\ [][Next]_vars

\* SpecLabel: turns between two places whose exit carries no label, a blank
\* label or a label with trailing whitespace.
Labels == {Null, <<" ">>, <<"x", " ">>}

LabelTurns ==
  {Turn(Payload(n, <<>>, <<"d">>, <<>>, e), <<>>, <<>>, <<>>) :
     n \in {<<"a">>, <<"b">>},
     e \in {<<>>} \cup {<<Exit(m, l, b)>> :
                          m \in {<<"a">>, <<"b">>}, l \in Labels, b \in BOOLEAN}}

NextLabel ==
  \E turn \in LabelTurns : ApplyGameTurn(turn, <<"h", "i">>, FALSE)

SpecLabel == Init /\ [][NextLabel]_vars

\* SpecLog: turns between two places with an empty, a blank or a real player
\* message, initial or not.
Messages == {<<>>, <<" ">>, <<"h", "i", " ">>}

LogTurns ==
  {Turn(Payload(n, <<>>, <<"d">>, <<>>, <<>>), <<>>, <<>>, <<>>) :
     n \in {<<"a">>, <<"A", " ">>, <<"b">>}}

NextLog ==
  \E turn \in LogTurns, playerMessage \in Messages, isInitial \in BOOLEAN :
    ApplyGameTurn(turn, playerMessage, isInitial)

SpecLog == Init /\ [][NextLog]_vars

\* SpecItems: turns between two places that list items in the location and
\* in the inventory.
Knife == Item(<<"k">>, <<"s">>, TRUE)
KnifeAgain == Item(<<"K", " ">>, <<"t">>, FALSE)
Lamp == Item(<<"l">>, <<>>, TRUE)

ItemLists == {<<>>, <<Knife>>, <<KnifeAgain, Lamp>>}

ItemTurns ==
  {Turn(Payload(n, <<>>, <<"d">>, li, e), <<>>, <<>>, ii) :
     n \in {<<"a">>, <<"b">>}, li \in ItemLists, ii \in ItemLists,
     e \in {<<Exit(<<"b">>, Null, TRUE)>>}}

NextItems ==
  \E turn \in ItemTurns : ApplyGameTurn(turn, <<"h", "i">>, FALSE)

SpecItems == Init /\ [][NextItems]_vars

\* SpecDesc: turns between two places with empty, blank and real
\* descriptions, with and without a discovery of the place "a".
MapDescriptions == {<<>>, <<" ">>, <<"D", " ">>}
Descriptions == {<<>>, <<"d">>, <<"e">>}
Fallbacks == {<<>>, <<"f">>}
DiscoveryLists == {<<>>, <<Payload(<<"a">>, <<"m">>, <<"e">>, <<>>, <<>>)>>}

DescTurns ==
  {Turn(Payload(n, m, d, <<>>, <<>>), f, ds, <<>>) :
     n \in {<<"a">>, <<"b">>}, m \in MapDescriptions, d \in Descriptions,
     f \in Fallbacks, ds \in DiscoveryLists}

NextDesc ==
  /\ now < MaxDescTurns
  /\ \E turn \in DescTurns : ApplyGameTurn(turn, <<"h", "i">>, FALSE)

SpecDesc == Init /\ [][NextDesc]_vars

\* SpecDedup: the turns of SpecDesc whose long descriptions are not empty,
\* as the narrator's schema requires.
DedupTurns ==
  {turn \in DescTurns :
     /\ turn.playerLocation.description # <<>>
     /\ \A i \in 1..Len(turn.discoveries) :
          turn.discoveries[i].description # <<>>}

NextDedup ==
  /\ now < MaxDescTurns
  /\ \E turn \in DedupTurns : ApplyGameTurn(turn, <<"h", "i">>, FALSE)

SpecDedup == Init /\ [][NextDedup]_vars

\* SpecRoute: getRoute asked for every pair of identifiers, known or not, of
\* a stored graph: a chain of MaxChain places, one-way or both ways, with at
\* most one more connection, which may be a shortcut, a step back, a
\* self-loop or a connection to an identifier that is no key of the graph.
Connection(id, targetId, bidirectional) ==
  [id |-> id, targetId |-> targetId, label |-> DEFAULT_EXIT_LABEL,
   bidirectional |-> bidirectional]

ChainNode(i, both, extra) ==
  [NewNode(i, <<"p">>) EXCEPT
     !.connections =
        (IF extra # <<>> /\ extra[1] = i
         THEN <<Connection(3 * i, extra[2], FALSE)>> ELSE <<>>)
        \o (IF both /\ i > 1
            THEN <<Connection(3 * i + 1, i - 1, TRUE)>> ELSE <<>>)
        \o (IF i < MaxChain
            THEN <<Connection(3 * i + 2, i + 1, both)>> ELSE <<>>)]

ChainGraph(both, extra) == [i \in 1..MaxChain |-> ChainNode(i, both, extra)]

RouteGraphs ==
  {ChainGraph(both, extra) :
     both \in BOOLEAN,
     extra \in {<<>>} \cup ((1..MaxChain) \X (1..(MaxChain + 1)))}

RouteIds == 0..(MaxChain + 1)

InitRoute ==
  /\ \E graph \in RouteGraphs : world = [createWorld EXCEPT !.graph = graph]
  /\ character = createCharacter
  /\ uuid = 0
  /\ now = 0
  /\ call = NoCall
  /\ route = NoCall
  /\ requests = <<>>

\* the narrator's tool call "get route"
GetRoute(fromId, toId) ==
  /\ route' = [done |-> TRUE, fromId |-> fromId, toId |-> toId,
               result |-> getRoute(fromId, toId, world.graph)]
  /\ UNCHANGED <<world, character, uuid, now, call, requests>>

NextRoute == \E fromId \in RouteIds, toId \in RouteIds : GetRoute(fromId, toId)

SpecRoute == InitRoute /\ [][NextRoute]_vars

\* SpecFallback: turns between three places whose payloads are as the
\* narrator's schema leaves them (trimmed), with a map-description that is
\* absent or equals a stored description up to case.
FallbackTurns ==
  {Turn(Payload(n, m, d, <<>>, <<>>), <<>>, <<>>, <<>>) :
     n \in {<<"a">>, <<"b">>, <<"c">>},
     m \in {<<>>, <<"D">>, <<"e">>},
     d \in {<<"d">>, <<"E">>}}

NextFallback ==
  \E turn \in FallbackTurns : ApplyGameTurn(turn, <<"h", "i">>, FALSE)

SpecFallback == Init /\ [][NextFallback]_vars


\* SpecItemsTwice: turns at two places that list items in the location, in
\* the inventory and in a discovery of the place "a", so that one turn may
\* hold two payloads for the same place.
KnifeUpper == Item(<<"K">>, <<"t">>, FALSE)

ItemDiscoveryLists ==
  {<<>>, <<Payload(<<"a">>, <<>>, <<"d">>, <<KnifeUpper>>, <<>>)>>}

ItemTwiceTurns ==
  {Turn(Payload(n, <<>>, <<"d">>, li, <<>>), <<>>, ds, ii) :
     n \in {<<"a">>, <<"b">>}, li \in {<<>>, <<Knife>>},
     ds \in ItemDiscoveryLists, ii \in {<<>>, <<Knife>>, <<KnifeUpper, Lamp>>}}

NextItemsTwice ==
  \E turn \in ItemTwiceTurns : ApplyGameTurn(turn, <<"h", "i">>, FALSE)

SpecItemsTwice == Init /\ [][NextItemsTwice]_vars

\* SpecSearch: one call of getRoute or of hasPath (with minDepth 2, as
\* syncExits calls it) on a graph of SpecRoute, run one iteration of its
\* while loop at a time.  route holds the call's local variables: queue and
\* visited, and for the properties the identifiers pushed so far and the
\* depths of the nodes whose connections were scanned.
SearchCall(kind, fromId, toId) ==
  [done |-> FALSE, started |-> FALSE, kind |-> kind,
   fromId |-> fromId, toId |-> toId,
   queue |-> <<>>, visited |-> {}, pushed |-> <<>>, expanded |-> <<>>,
   result |-> Null]

InitSearch ==
  /\ \E graph \in RouteGraphs : world = [createWorld EXCEPT !.graph = graph]
  /\ character = createCharacter
  /\ uuid = 0
  /\ now = 0
  /\ call = NoCall
  /\ \E kind \in {"getRoute", "hasPath"}, fromId \in RouteIds, toId \in RouteIds :
       route = SearchCall(kind, fromId, toId)
  /\ requests = <<>>

\* identifiers appended to the queue by one scan of a node's connections
Pushed(before, after) ==
  [i \in 1..(Len(after) - Len(before)) |-> after[Len(before) + i].id]

\* getRoute up to the while loop
GetRouteEnter ==
  /\ route.kind = "getRoute" /\ ~route.started
  /\ route' =
       IF route.fromId = route.toId
       THEN [route EXCEPT !.started = TRUE, !.done = TRUE,
                          !.result = getRoute(route.fromId, route.toId, world.graph)]
       ELSE [route EXCEPT !.started = TRUE,
                          !.queue = <<[id |-> route.fromId,
                                       path |-> <<route.fromId>>]>>,
                          !.visited = {route.fromId},
                          !.pushed = <<route.fromId>>]
  /\ UNCHANGED <<world, character, uuid, now, call, requests>>

\* getRoute: one iteration of the while loop, or the return after it
GetRouteStep ==
  /\ route.kind = "getRoute" /\ route.started /\ ~route.done
  /\ route' =
       IF route.queue = <<>>
       THEN [route EXCEPT !.done = TRUE,
                          !.result = [exists |-> FALSE, path |-> <<>>,
                                      totalDistance |-> -1]]
       ELSE LET current == Head(route.queue)
                r == getRouteFor(world.graph[current.id].connections, 1,
                                 route.toId, current.path, Tail(route.queue),
                                 route.visited)
            IN IF Len(current.path) > MAX_DEPTH \/ ~HasKey(world.graph, current.id)
               THEN [route EXCEPT !.queue = Tail(@)]
               ELSE IF r.found
               THEN [route EXCEPT
                       !.done = TRUE,
                       !.expanded = Append(@, Len(current.path) - 1),
                       !.result = [exists |-> TRUE,
                                   path |-> pathInfo(world.graph, r.fullPath),
                                   totalDistance |-> Len(r.fullPath) - 1]]
               ELSE [route EXCEPT
                       !.queue = r.queue, !.visited = r.visited,
                       !.expanded = Append(@, Len(current.path) - 1),
                       !.pushed = @ \o Pushed(Tail(route.queue), r.queue)]
  /\ UNCHANGED <<world, character, uuid, now, call, requests>>

\* hasPath up to the while loop
HasPathEnter ==
  /\ route.kind = "hasPath" /\ ~route.started
  /\ route' =
       IF route.fromId = route.toId
       THEN [route EXCEPT !.started = TRUE, !.done = TRUE, !.result = FALSE]
       ELSE [route EXCEPT !.started = TRUE,
                          !.queue = <<[id |-> route.fromId, depth |-> 0]>>,
                          !.visited = {route.fromId},
                          !.pushed = <<route.fromId>>]
  /\ UNCHANGED <<world, character, uuid, now, call, requests>>

\* hasPath: one iteration of the while loop, or the return after it
HasPathStep ==
  /\ route.kind = "hasPath" /\ route.started /\ ~route.done
  /\ route' =
       IF route.queue = <<>>
       THEN [route EXCEPT !.done = TRUE, !.result = FALSE]
       ELSE LET current == Head(route.queue)
                r == hasPathFor(world.graph[current.id].connections, 1,
                                route.toId, 2, current.depth,
                                Tail(route.queue), route.visited)
            IN IF current.depth >= MAX_DEPTH \/ ~HasKey(world.graph, current.id)
               THEN [route EXCEPT !.queue = Tail(@)]
               ELSE IF r.found
               THEN [route EXCEPT !.done = TRUE, !.result = TRUE,
                                  !.expanded = Append(@, current.depth)]
               ELSE [route EXCEPT
                       !.queue = r.queue, !.visited = r.visited,
                       !.expanded = Append(@, current.depth),
                       !.pushed = @ \o Pushed(Tail(route.queue), r.queue)]
  /\ UNCHANGED <<world, character, uuid, now, call, requests>>

NextSearch == GetRouteEnter \/ GetRouteStep \/ HasPathEnter \/ HasPathStep

\* the loops run on: a call that can take a step takes it
SpecSearch == InitSearch /\ [][NextSearch]_vars /\ WF_vars(NextSearch)

\* SpecDiscover: turns at two places that may name the place "a" as an exit
\* and may list either place as a discovery.
DiscoverTurns ==
  {Turn(Payload(n, <<>>, <<"d">>, <<>>, e), <<>>, ds, <<>>) :
     n \in {<<"a">>, <<"b">>},
     e \in {<<>>, <<Exit(<<"a">>, Null, TRUE)>>},
     ds \in {<<>>} \cup {<<Payload(m, <<>>, <<"e">>, <<>>, <<>>)>> :
                           m \in {<<"a">>, <<"b">>, <<"c">>}}}

NextDiscover ==
  \E turn \in DiscoverTurns : ApplyGameTurn(turn, <<"h", "i">>, FALSE)

SpecDiscover == Init /\ [][NextDiscover]_vars

\* SpecFind: findLocationByName asked on a stored graph of MaxFind places.
\* A place is of one of four kinds; its name ends in its own digit, names
\* being unique in a graph.
Digit(i) == <<"1", "2", "3", "4", "5", "6", "7", "8", "9">>[i]

FindNode(i, kind) ==
  [NewNode(i, <<"x", Digit(i)>>) EXCEPT
     !.locationName =
        CASE kind = 1 -> <<"a", "b", Digit(i)>>
          [] kind = 2 -> <<"c", Digit(i)>>
          [] kind = 3 -> <<"B", "a", Digit(i)>>
          [] OTHER -> <<"x", Digit(i)>>,
     !.mapDescription = IF kind = 2 THEN <<"a", "b">> ELSE Null,
     !.description = IF kind \in {2, 3} THEN <<"q">> ELSE Null]

FindGraphs ==
  {[i \in 1..MaxFind |-> FindNode(i, kinds[i])] :
     kinds \in [1..MaxFind -> 1..4]}

Queries ==
  {<<>>, <<"a", "b">>, <<" ", "A">>, <<"b">>, <<"q">>, <<"a", "b", "1">>,
   <<"b", " ", " ", "q">>, <<"b", " ", "q", " ", "z">>, <<"z", " ", "q">>}

InitFind ==
  /\ \E graph \in FindGraphs : world = [createWorld EXCEPT !.graph = graph]
  /\ character = createCharacter
  /\ uuid = 0
  /\ now = 0
  /\ call = NoCall
  /\ route = NoCall
  /\ requests = <<>>

\* the narrator's tool call "find location by name"
FindLocationByName(rawName) ==
  /\ route' = [done |-> TRUE, rawName |-> rawName,
               result |-> findLocationByName(rawName, world.graph)]
  /\ UNCHANGED <<world, character, uuid, now, call, requests>>

NextFind == \E rawName \in Queries : FindLocationByName(rawName)

SpecFind == InitFind /\ [][NextFind]_vars

\* SpecAction: turns at the entry location, under two spellings of its name,
\* and at one other place, with an empty, a blank or a real player message,
\* initial or not.
ActionTurns ==
  {Turn(Payload(n, <<>>, <<"d">>, <<>>, <<>>), <<>>, <<>>, <<>>) :
     n \in {ENTRY_NAME, <<"h", "u", "b">>, <<"a">>}}

NextAction ==
  \E turn \in ActionTurns, playerMessage \in Messages, isInitial \in BOOLEAN :
    ApplyGameTurn(turn, playerMessage, isInitial)

SpecAction == Init /\ [][NextAction]_vars

\* ------------------------------------------------------------------------
\* lib/llm/types.ts: the schemas, as the success test and the parsed value
\* ------------------------------------------------------------------------
ItemDescriptorSchema_success(item) == Len(item.name) >= 1

ItemDescriptorSchema_parse(item) ==
  [item EXCEPT !.name = trim(@), !.description = trim(@)]

ExitDescriptorSchema_success(exit) == Len(exit.name) >= 1

ExitDescriptorSchema_parse(exit) ==
  [exit EXCEPT !.name = trim(@),
               !.label = IF @ = Null THEN Null ELSE trim(@)]

LocationPayloadSchema_success(payload) ==
  /\ Len(payload.name) >= 1
  /\ Len(payload.description) >= 1
  /\ \A i \in 1..Len(payload.items) :
       ItemDescriptorSchema_success(payload.items[i])
  /\ \A i \in 1..Len(payload.exits) :
       ExitDescriptorSchema_success(payload.exits[i])

LocationPayloadSchema_parse(payload) ==
  [payload EXCEPT
     !.name = trim(@), !.mapDescription = trim(@), !.description = trim(@),
     !.items = [i \in 1..Len(@) |-> ItemDescriptorSchema_parse(@[i])],
     !.exits = [i \in 1..Len(@) |-> ExitDescriptorSchema_parse(@[i])]]

LLMGameTurnSchema_success(turn) ==
  /\ Len(turn.narration) >= 1
  /\ LocationPayloadSchema_success(turn.playerLocation)
  /\ \A i \in 1..Len(turn.discoveries) :
       LocationPayloadSchema_success(turn.discoveries[i])
  /\ \A i \in 1..Len(turn.inventory.items) :
       ItemDescriptorSchema_success(turn.inventory.items[i])

LLMGameTurnSchema_parse(turn) ==
  [turn EXCEPT
     !.narration = trim(@), !.mapDescription = trim(@),
     !.playerLocation = LocationPayloadSchema_parse(@),
     !.discoveries = [i \in 1..Len(@) |-> LocationPayloadSchema_parse(@[i])],
     !.inventory =
       [items |-> [i \in 1..Len(@.items) |->
                     ItemDescriptorSchema_parse(@.items[i])]]]

\* ------------------------------------------------------------------------
\* app/api/session/route.ts: POST, run from one await to the next
\* ------------------------------------------------------------------------
\* number of requests received
MaxRequests == 2

\* the stored worlds and characters: this model keeps one of each
getWorlds == <<world>>

getCharacters == <<character>>

\* variant: the lookup answers with a stored world whatever the identifier
getWorldById_any(worldId) == getWorlds

\* worlds.find(world => world.id === worldId): empty when there is none
getWorldById(worldId) ==
  SelectSeq(getWorlds, LAMBDA w : w.id = worldId)

getCharacterById(characterId) ==
  SelectSeq(getCharacters, LAMBDA c : c.id = characterId)

ZodError == [name |-> "ZodError", message |-> "invalid"]
WorldNotFound == [name |-> "NotFoundError", message |-> "world not found"]
CharacterNotFound ==
  [name |-> "NotFoundError", message |-> "character not found"]
ProviderError == [name |-> "Error", message |-> "provider failed"]

\* the catch block of POST: the response for a thrown error
POST_catch(error) ==
  IF error.name = "ZodError"
  THEN [status |-> 400, error |-> "invalid data"]
  ELSE IF error.name = "NotFoundError"
  THEN [status |-> 404, error |-> error.message]
  ELSE [status |-> 500, error |-> "turn failed"]

\* a request as received; world, character, turn and the updated snapshots
\* are the handler's local variables, writes the saves it has executed
NewRequest(worldId, characterId) ==
  [pc |-> "received", worldId |-> worldId, characterId |-> characterId,
   world |-> Null, character |-> Null, turn |-> Null,
   updatedWorld |-> Null, updatedCharacter |-> Null,
   pending |-> {}, writes |-> <<>>, status |-> 0, error |-> ""]

Respond(r, response) ==
  requests' = [requests EXCEPT ![r].pc = "done",
                               ![r].status = response.status,
                               ![r].error = response.error]

Receive(worldId, characterId) ==
  /\ Len(requests) < MaxRequests
  /\ requests' = Append(requests, NewRequest(worldId, characterId))
  /\ UNCHANGED <<world, character, uuid, now, call, route>>

\* getWorldOrThrow
GetWorldOrThrow(r) ==
  /\ requests[r].pc = "received"
  /\ LET found == getWorldById(requests[r].worldId)
     IN IF found = <<>>
        THEN Respond(r, POST_catch(WorldNotFound))
        ELSE requests' = [requests EXCEPT ![r].pc = "world",
                                          ![r].world = found[1]]
  /\ UNCHANGED <<world, character, uuid, now, call, route>>

\* getCharacterOrThrow
GetCharacterOrThrow(r) ==
  /\ requests[r].pc = "world"
  /\ LET found == getCharacterById(requests[r].characterId)
     IN IF found = <<>>
        THEN Respond(r, POST_catch(CharacterNotFound))
        ELSE requests' = [requests EXCEPT ![r].pc = "character",
                                          ![r].character = found[1]]
  /\ UNCHANGED <<world, character, uuid, now, call, route>>

\* provider.generateTurn throws: a request to the model failed, or the
\* model's answer could not be parsed into a turn
GenerateTurnThrows(r) ==
  /\ requests[r].pc = "character"
  /\ Respond(r, POST_catch(ProviderError))
  /\ UNCHANGED <<world, character, uuid, now, call, route>>

\* provider.generateTurn returns turn: LLMGameTurnSchema.parse, applyGameTurn
\* on the world and character this request loaded, and the two saves started
GenerateTurn(r, turn) ==
  /\ requests[r].pc = "character"
  /\ IF ~LLMGameTurnSchema_success(turn)
     THEN /\ requests' = [requests EXCEPT ![r].pc = "done",
                                          ![r].turn = turn,
                                          ![r].status = POST_catch(ZodError).status,
                                          ![r].error = POST_catch(ZodError).error]
          /\ UNCHANGED <<uuid, now>>
     ELSE LET result == applyGameTurn(requests[r].world, requests[r].character,
                                      LLMGameTurnSchema_parse(turn),
                                      <<"g", "o">>, FALSE, now + 1, uuid)
          IN /\ requests' = [requests EXCEPT
                               ![r].pc = "saving",
                               ![r].turn = turn,
                               ![r].updatedWorld = result.world,
                               ![r].updatedCharacter = result.character,
                               ![r].pending = {"saveWorld", "saveCharacter"}]
             /\ uuid' = result.uuid
             /\ now' = now + 1
  /\ UNCHANGED <<world, character, call, route>>

\* one of the saves of Promise.all completes; the response follows the last
Saved(r, save) ==
  requests' =
    [requests EXCEPT
       ![r].pending = @ \ {save},
       ![r].writes = Append(@, save),
       ![r].pc = IF requests[r].pending = {save} THEN "done" ELSE @,
       ![r].status = IF requests[r].pending = {save} THEN 200 ELSE @]

\* saveWorld: writeJsonFile of the whole world
SaveWorld(r) ==
  /\ requests[r].pc = "saving"
  /\ "saveWorld" \in requests[r].pending
  /\ world' = requests[r].updatedWorld
  /\ Saved(r, "saveWorld")
  /\ UNCHANGED <<character, uuid, now, call, route>>

\* saveCharacter: the stored character with this id is replaced
SaveCharacter(r) ==
  /\ requests[r].pc = "saving"
  /\ "saveCharacter" \in requests[r].pending
  /\ character' = requests[r].updatedCharacter
  /\ Saved(r, "saveCharacter")
  /\ UNCHANGED <<world, uuid, now, call, route>>

\* SpecSession: requests that name the stored or an unknown world and
\* character, and a narrator that answers with a turn at one of two new
\* places joined to the entry location, with a turn without a location name,
\* with a turn whose location name is blank, or with an error.
UNKNOWN_ID == 2

SessionTurns ==
  {Turn(Payload(n, <<>>, <<"d", " ">>, <<>>, <<Exit(ENTRY_NAME, Null, TRUE)>>),
        <<>>, <<>>, <<>>) : n \in {<<"a", " ">>, <<"b">>, <<>>}}

NextSession ==
  \/ \E worldId \in {WORLD_ID, UNKNOWN_ID},
        characterId \in {CHARACTER_ID, UNKNOWN_ID} :
       Receive(worldId, characterId)
  \/ \E r \in DOMAIN requests : GetWorldOrThrow(r)
  \/ \E r \in DOMAIN requests : GetCharacterOrThrow(r)
  \/ \E r \in DOMAIN requests : GenerateTurnThrows(r)
  \/ \E r \in DOMAIN requests, turn \in SessionTurns : GenerateTurn(r, turn)
  \/ \E r \in DOMAIN requests : SaveWorld(r)
  \/ \E r \in DOMAIN requests : SaveCharacter(r)

SpecSession == Init /\ [][NextSession]_vars

\* SpecReach: one turn applied to a stored chain graph of SpecRoute whose
\* places have names of their own: the player stands at one place of the
\* chain and the payload declares one or two exits, to places of the chain
\* or to a place not yet in the graph.
Letter(i) ==
  <<"a", "b", "c", "d", "e", "f", "g", "h", "i", "j", "k", "l", "m">>[i]

ReachGraph(both, extra) ==
  [i \in 1..MaxChain |->
     [ChainNode(i, both, extra) EXCEPT !.locationName = <<Letter(i)>>]]

ReachGraphs ==
  {ReachGraph(both, extra) :
     both \in BOOLEAN,
     extra \in {<<>>} \cup ((1..MaxChain) \X (1..(MaxChain + 1)))}

InitReach ==
  /\ \E graph \in ReachGraphs : world = [createWorld EXCEPT !.graph = graph]
  /\ character = createCharacter
  /\ uuid = 0
  /\ now = 0
  /\ call = NoCall
  /\ route = NoCall
  /\ requests = <<>>

ReachExitLists ==
  {<<Exit(<<Letter(j)>>, Null, b)>> :
     j \in 1..(MaxChain + 1), b \in BOOLEAN}
  \cup {<<Exit(<<Letter(j)>>, Null, FALSE), Exit(<<Letter(1)>>, Null, TRUE)>> :
          j \in 1..(MaxChain + 1)}

ReachTurns ==
  {Turn(Payload(<<Letter(i)>>, <<>>, <<"d">>, <<>>, e), <<>>, <<>>, <<>>) :
     i \in 1..MaxChain, e \in ReachExitLists}

NextReach ==
  \E turn \in ReachTurns :
    ~call.done /\ ApplyGameTurn(turn, <<"g", "o">>, FALSE)

SpecReach == InitReach /\ [][NextReach]_vars

\* SpecItemsRepeat: turns at two places whose item lists, of the location and
\* of the inventory, name the knife once, or twice in two spellings.
RepeatLists == {<<>>, <<Knife>>, <<Knife, KnifeAgain>>}

ItemRepeatTurns ==
  {Turn(Payload(n, <<>>, <<"d">>, li, <<>>), <<>>, <<>>, ii) :
     n \in {<<"a">>, <<"b">>}, li \in RepeatLists, ii \in RepeatLists}

NextItemsRepeat ==
  \E turn \in ItemRepeatTurns : ApplyGameTurn(turn, <<"h", "i">>, FALSE)

SpecItemsRepeat == Init /\ [][NextItemsRepeat]_vars

\* ------------------------------------------------------------------------
\* lib/llm/navigationTools.ts: getNearLocations
\* ------------------------------------------------------------------------
getNearLocations(currentLocationId, graph) ==
  IF ~HasKey(graph, currentLocationId) THEN <<>>
  ELSE LET known == SelectSeq(graph[currentLocationId].connections,
                              LAMBDA conn : HasKey(graph, conn.targetId))
       IN [i \in 1..Len(known) |->
             [id |-> graph[known[i].targetId].id,
              name |-> graph[known[i].targetId].locationName,
              mapDescription |->
                LocationInfo(graph[known[i].targetId]).mapDescription,
              distance |-> 1]]

\* ------------------------------------------------------------------------
\* GeminiProvider.generateTurn.  A value that may be missing is a sequence of
\* at most one element.
\* ------------------------------------------------------------------------
MAX_FUNCTION_CALLS == 5

\* number of parts of a model response
MaxParts == 2

LIMIT_ERROR == "function call limit exceeded"

\* executeFunctionCall, case "get_near_locations"
executeGetNearLocations(input) ==
  LET nearLocations == getNearLocations(input.currentLocation.id,
                                        input.world.graph)
  IN [count |-> Len(nearLocations),
      locations |->
        [i \in 1..Len(nearLocations) |->
           [name |-> nearLocations[i].name,
            description |-> OrElse(nearLocations[i].mapDescription, <<>>)]]]

\* executeFunctionCall, case "find_location_by_name": the answer for the
\* matches found; similarities are in 600ths, Math.round(similarity * 100)
\* is the nearest percent
foundMatches(matches) ==
  [found |-> Len(matches) > 0,
   matches |->
     [i \in 1..Len(matches) |->
        [name |-> matches[i].name,
         description |-> matches[i].mapDescription,
         similarity |-> (matches[i].similarity + 3) \div 6]]]

executeFindLocationByName(args, input) ==
  IF args.raw_name = <<>>
  THEN [error |-> "no name to search for"]
  ELSE foundMatches(findLocationByName(args.raw_name, input.world.graph))

\* executeFunctionCall, case "get_route": the answer for the route found;
\* the path's elements are LocationInfo objects, whose locationName is
\* undefined
foundRoute(r) ==
  IF ~r.exists
  THEN [exists |-> FALSE, error |-> "no route"]
  ELSE [exists |-> TRUE, distance |-> Len(r.path) - 1,
        path |-> [i \in 1..Len(r.path) |->
                    [name |-> Null,
                     description |-> r.path[i].mapDescription]]]

executeGetRoute(args, input) ==
  IF args.target_location_name = <<>>
  THEN [error |-> "no target location"]
  ELSE LET targetLocation ==
             FindIndex({k \in 1..Len(input.world.graph) :
                          input.world.graph[k].locationName
                            = args.target_location_name})
       IN IF targetLocation = 0
          THEN [error |-> "location not on the map"]
          ELSE foundRoute(getRoute(input.currentLocation.id,
                                   input.world.graph[targetLocation].id,
                                   input.world.graph))

executeFunctionCall(functionName, args, input) ==
  CASE functionName = "get_near_locations" -> executeGetNearLocations(input)
    [] functionName = "find_location_by_name" ->
         executeFindLocationByName(args, input)
    [] functionName = "get_route" -> executeGetRoute(args, input)
    [] OTHER -> [error |-> "no such function"]

\* variant: the loop runs while iterationCount is at most the limit
whileCondition_inclusive(iterationCount) ==
  iterationCount <= MAX_FUNCTION_CALLS

\* while (iterationCount < MAX_FUNCTION_CALLS)
whileCondition(iterationCount) == iterationCount < MAX_FUNCTION_CALLS

\* parts of a model response
FunctionCallPart(name, raw_name, target_location_name) ==
  [functionCall |->
     <<[name |-> name,
        args |-> [raw_name |-> raw_name,
                  target_location_name |-> target_location_name]]>>,
   text |-> <<>>]

TextPart(turn) == [functionCall |-> <<>>, text |-> <<turn>>]

\* a part with neither a function call nor text
EmptyPart == [functionCall |-> <<>>, text |-> <<>>]

Response(parts) == [candidates |-> <<[content |-> <<[parts |-> parts]>>]>>]

NoCandidates == [candidates |-> <<>>]

NoContent == [candidates |-> <<[content |-> <<>>]>>]

\* parseGameTurn: the text is the JSON of turn
parseGameTurn(turn) ==
  IF LLMGameTurnSchema_success(turn)
  THEN [returned |-> TRUE, value |-> <<LLMGameTurnSchema_parse(turn)>>,
        error |-> ""]
  ELSE [returned |-> FALSE, value |-> <<>>, error |-> "invalid answer format"]

Throw(message) == [returned |-> FALSE, value |-> <<>>, error |-> message]

\* the call's local variables; received counts the model responses that have
\* arrived, and returned, value and error are the way the call ended
NewGenerateTurn ==
  [done |-> FALSE, pc |-> "sendMessage", iterationCount |-> 0,
   currentResponse |-> <<>>, toolLogs |-> <<>>, received |-> 0,
   returned |-> FALSE, value |-> <<>>, error |-> ""]

GenerateTurnInput ==
  [world |-> world, currentLocation |-> world.graph[world.entryLocationId]]

End(outcome) ==
  route' = [route EXCEPT !.done = TRUE, !.pc = "done",
                         !.returned = outcome.returned,
                         !.value = outcome.value,
                         !.error = outcome.error]

\* await chat.sendMessage(...) resolves with response
SendMessageResolves(response) ==
  /\ route.pc = "sendMessage"
  /\ route' = [route EXCEPT !.pc = "while",
                            !.currentResponse = <<response>>,
                            !.received = @ + 1]
  /\ UNCHANGED <<world, character, uuid, now, call, requests>>

\* await chat.sendMessage(...) rejects; the error is thrown on
SendMessageRejects ==
  /\ route.pc = "sendMessage"
  /\ End(Throw("request failed"))
  /\ UNCHANGED <<world, character, uuid, now, call, requests>>

\* the loop's body on a response with parts: the first function call is
\* executed and answered, or the text is parsed
Examine(parts) ==
  LET functionCall ==
        FindIndex({i \in 1..Len(parts) : parts[i].functionCall # <<>>})
      textPart == FindIndex({i \in 1..Len(parts) : parts[i].text # <<>>})
  IN IF functionCall > 0
     THEN LET fc == parts[functionCall].functionCall[1]
          IN route' =
               [route EXCEPT
                  !.iterationCount = @ + 1,
                  !.pc = "sendMessage",
                  !.toolLogs =
                     Append(@, [toolName |-> fc.name, args |-> fc.args,
                                result |->
                                  executeFunctionCall(fc.name, fc.args,
                                                      GenerateTurnInput)])]
     ELSE LET outcome == IF textPart > 0
                         THEN parseGameTurn(parts[textPart].text[1])
                         ELSE Throw("empty answer")
          IN route' = [route EXCEPT !.iterationCount = @ + 1,
                                    !.done = TRUE, !.pc = "done",
                                    !.returned = outcome.returned,
                                    !.value = outcome.value,
                                    !.error = outcome.error]

\* one test of the while condition and, when it holds, one run of the body
\* up to the next await, return or throw
While ==
  /\ route.pc = "while"
  /\ IF ~whileCondition(route.iterationCount)
     THEN End(Throw(LIMIT_ERROR))
     ELSE LET candidates == route.currentResponse[1].candidates
          IN IF candidates = <<>>
             THEN route' = [route EXCEPT !.iterationCount = @ + 1,
                                         !.done = TRUE, !.pc = "done",
                                         !.error = "no candidates"]
             ELSE IF candidates[1].content = <<>>
             THEN route' = [route EXCEPT !.iterationCount = @ + 1,
                                         !.done = TRUE, !.pc = "done",
                                         !.error = "no content"]
             ELSE IF candidates[1].content[1].parts = <<>>
             THEN route' = [route EXCEPT !.iterationCount = @ + 1,
                                         !.done = TRUE, !.pc = "done",
                                         !.error = "no parts"]
             ELSE Examine(candidates[1].content[1].parts)
  /\ UNCHANGED <<world, character, uuid, now, call, requests>>

\* SpecTool: one call of generateTurn in a world of MaxPlaces places in a
\* chain walked both ways, the last with a connection to an unknown
\* identifier, the player at the first place.  The model answers with responses of at
\* most MaxParts parts: calls of get_near_locations and of get_route, the
\* text of a turn that passes the schema or of one that does not, empty
\* parts; or with a response that lacks candidates, content or parts.
\* number of places of the world
MaxPlaces == 3

ToolGraph == SubSeq(ReachGraph(TRUE, <<>>), 1, MaxPlaces)

ToolParts ==
  {FunctionCallPart("get_near_locations", <<>>, <<>>),
   FunctionCallPart("get_route", <<>>, <<"c">>),
   EmptyPart}
  \cup {TextPart(Turn(Payload(n, <<>>, <<"d">>, <<>>, <<>>), <<>>, <<>>, <<>>)) :
          n \in {<<"b">>, <<>>}}

PartLists ==
  UNION {[1..n -> ToolParts] : n \in 1..MaxParts}

Responses ==
  {NoCandidates, NoContent, Response(<<>>)}
  \cup {Response(parts) : parts \in PartLists}

InitTool ==
  /\ world = [createWorld EXCEPT !.graph = ToolGraph]
  /\ character = createCharacter
  /\ uuid = 0
  /\ now = 0
  /\ call = NoCall
  /\ route = NewGenerateTurn
  /\ requests = <<>>

NextTool ==
  \/ \E response \in Responses : SendMessageResolves(response)
  \/ SendMessageRejects
  \/ While

SpecTool == InitTool /\ [][NextTool]_vars /\ WF_vars(NextTool)

\* ------------------------------------------------------------------------
\* Vocabulary of the properties
\* ------------------------------------------------------------------------
Keys(graph) == 1..Len(graph)

\* node s holds a connection whose target is node t
HasEdge(graph, s, t) ==
  \E i \in 1..Len(graph[s].connections) :
    graph[s].connections[i].targetId = graph[t].id

\* targets of the connections stored on the nodes of S
Successors(graph, S) ==
  UNION {{graph[s].connections[i].targetId :
            i \in 1..Len(graph[s].connections)} : s \in S \cap Keys(graph)}

\* identifiers reached from S by at most k connections
RECURSIVE Within(_, _, _)
Within(graph, S, k) ==
  IF k = 0 THEN S ELSE Within(graph, S \cup Successors(graph, S), k - 1)

\* a route of 2 to 7 connections from s to t whose last connection leaves a
\* node other than s
IndirectRoute(graph, s, t) ==
  \E u \in (Within(graph, {s}, MAX_DEPTH - 1) \cap Keys(graph)) \ {s} :
    HasEdge(graph, u, t)

ExitEvents == IF call.done THEN call.result.exits ELSE <<>>
ResolveEvents == IF call.done THEN call.result.resolves ELSE <<>>
UpsertEvents == IF call.done THEN call.result.upserts ELSE <<>>

\* ------------------------------------------------------------------------
\* C1 (as stated): after syncExits has processed a bidirectional exit from
\* node A to the name T, both A->T and T->A are connections of the graph.
C1_BidirectionalRepairAlways ==
  \A n \in 1..Len(ExitEvents) :
    LET e == ExitEvents[n]
    IN e.exit.bidirectional =>
         /\ HasEdge(e.after, e.source, e.target)
         /\ HasEdge(e.after, e.target, e.source)

\* C1 (amended): after syncExits has processed a bidirectional exit from A
\* to T, both A->T and T->A exist, provided that no route of 2 to 7
\* connections led from A to T through another node when the exit was
\* processed; when such a route existed the exit leaves the graph as it was
\* after resolving T.
C1_BidirectionalRepair ==
  \A n \in 1..Len(ExitEvents) :
    LET e == ExitEvents[n]
    IN e.exit.bidirectional =>
         IF e.source # e.target /\ IndirectRoute(e.mid, e.source, e.target)
         THEN e.after = e.mid
         ELSE /\ HasEdge(e.after, e.source, e.target)
              /\ HasEdge(e.after, e.target, e.source)

\* a bidirectional exit to a place that did not exist before has been wired
\* in both directions, and another one has been skipped for an indirect route
C1_Witness ==
  /\ \E n \in 1..Len(ExitEvents) :
       LET e == ExitEvents[n]
       IN /\ e.exit.bidirectional
          /\ IndirectRoute(e.mid, e.source, e.target)
          /\ ~HasEdge(e.after, e.source, e.target)
  /\ \E k \in Keys(world.graph) : \E m \in Keys(world.graph) :
       k # m /\ HasEdge(world.graph, k, m) /\ HasEdge(world.graph, m, k)

\* C2: no two nodes have the same normalised name, and resolving a name that
\* equals an existing node's name up to case and surrounding whitespace
\* returns that node and adds no node.
C2_DedupByName ==
  /\ \A i \in Keys(world.graph) : \A j \in Keys(world.graph) :
       i # j => normalize(world.graph[i].locationName)
                  # normalize(world.graph[j].locationName)
  /\ \A n \in 1..Len(ResolveEvents) :
       LET e == ResolveEvents[n]
       IN \A k \in Keys(e.before) :
            normalize(e.before[k].locationName) = normalize(e.name)
              => e.key = k /\ Len(e.after) = Len(e.before)

\* a name was resolved to a node stored under another spelling of it
C2_Witness ==
  \E n \in 1..Len(ResolveEvents) :
    LET e == ResolveEvents[n]
    IN /\ e.key \in Keys(e.before)
       /\ e.before[e.key].locationName # e.name
       /\ normalize(e.before[e.key].locationName) = normalize(e.name)

\* C5: every connection flagged bidirectional has a reverse connection on
\* its target node.
C5_BidirectionalInvariant ==
  \A s \in Keys(world.graph) :
    \A i \in 1..Len(world.graph[s].connections) :
      LET c == world.graph[s].connections[i]
      IN c.bidirectional =>
           /\ c.targetId \in Keys(world.graph)
           /\ \E j \in 1..Len(world.graph[c.targetId].connections) :
                world.graph[c.targetId].connections[j].targetId
                  = world.graph[s].id

\* a connection first stored one-way has become bidirectional
C5_Witness ==
  /\ call.done
  /\ \E s \in Keys(call.world.graph) :
       \E i \in 1..Len(call.world.graph[s].connections) :
         /\ ~call.world.graph[s].connections[i].bidirectional
         /\ world.graph[s].connections[i].bidirectional
         /\ world.graph[s].connections[i].targetId # world.graph[s].id

\* (source, target) pairs of the connections of a graph
Edges(graph) ==
  UNION {{<<graph[s].id, graph[s].connections[i].targetId>> :
            i \in 1..Len(graph[s].connections)} : s \in Keys(graph)}

NodeIds(graph) == {graph[k].id : k \in Keys(graph)}

\* the last turn applied once more to the world and character it returned
Reapplied ==
  applyGameTurn(world, character, call.turn, call.playerMessage,
                call.isInitial, now + 1, uuid)

\* C3: applying the same turn a second time, to the world and character
\* returned by the first application, adds no node and no connection.
C3_IdempotentReapplication ==
  call.done =>
    /\ NodeIds(Reapplied.world.graph) = NodeIds(world.graph)
    /\ Edges(Reapplied.world.graph) = Edges(world.graph)

\* C4: when applyGameTurn returns, the world and the character passed by the
\* caller are as they were before the call.
C4_InputsNotMutated ==
  call.done =>
    /\ call.result.args.world = call.world
    /\ call.result.args.character = call.character

\* a call whose returned snapshots differ from the inputs in the graph's
\* nodes, connections and items, the owners, the timestamp, the character's
\* pointers and the inventory
C4_Witness ==
  /\ call.done
  /\ Len(world.graph) > Len(call.world.graph)
  /\ Edges(world.graph) # Edges(call.world.graph)
  /\ \E k \in Keys(world.graph) \ Keys(call.world.graph) :
       world.graph[k].items # <<>>
  /\ world.ownerCharacterIds # call.world.ownerCharacterIds
  /\ world.updatedAt # call.world.updatedAt
  /\ character.currentWorldId # call.character.currentWorldId
  /\ character.currentLocationId # call.character.currentLocationId
  /\ character.inventory # call.character.inventory

\* id of the node the last turn's playerLocation payload resolved to
ResolvedPlayerLocationId == world.graph[call.result.playerKey].id

\* C8 (as stated): every entry returned by applyGameTurn, the player's and
\* the narrator's, carries the id of the node resolved for playerLocation.
C8_EntriesCarryResolvedLocation ==
  call.done =>
    \A i \in 1..Len(call.result.newEntries) :
      /\ call.result.newEntries[i].locationId = ResolvedPlayerLocationId
      /\ call.result.newEntries[i].author \in {"player", "gm"}

\* C8 (amended): the narrator's entry is tagged gm and carries the id of the
\* node resolved for playerLocation; the player's entry, when there is one,
\* is tagged player and carries the location the character was at before
\* the turn (its own pointer, else the world's entry location).
C8_EntryLocations ==
  call.done =>
    LET entries == call.result.newEntries
        before == IF call.character.currentLocationId # NoId
                  THEN call.character.currentLocationId
                  ELSE call.world.entryLocationId
    IN /\ Len(entries) \in {1, 2}
       /\ Last(entries).author = "gm"
       /\ Last(entries).locationId = ResolvedPlayerLocationId
       /\ Len(entries) = 2 =>
            /\ entries[1].author = "player"
            /\ entries[1].locationId = before

\* the player wrote a message and the turn moved the character from a place
\* it had been moved to before
C8_Witness ==
  /\ call.done
  /\ Len(call.result.newEntries) = 2
  /\ call.character.currentLocationId # NoId
  /\ call.result.newEntries[1].locationId # call.result.newEntries[2].locationId

\* the first candidate that is a non-empty string after trimming, trimmed;
\* Null when there is none
FirstNonEmptyTrimmed(candidates) ==
  LET S == {i \in 1..Len(candidates) :
              candidates[i] # Null /\ trim(candidates[i]) # <<>>}
  IN IF S = {} THEN Null
     ELSE trim(candidates[CHOOSE i \in S : \A j \in S : i <= j])

\* C9 (as stated): after upsertLocationFromPayload the node's map-description
\* is the first non-empty trimmed value among the payload's map-description,
\* the caller's fallback, the node's previous map-description and the node's
\* previous long description.
C9_MapDescriptionChainPrevious ==
  \A n \in 1..Len(UpsertEvents) :
    LET e == UpsertEvents[n]
    IN e.node.mapDescription =
         FirstNonEmptyTrimmed(<<e.payload.mapDescription, e.fallback,
                                e.found.mapDescription, e.found.description>>)

\* C9 (amended): the fourth candidate is the payload's long description,
\* which has replaced the node's long description by then.
C9_MapDescriptionChain ==
  \A n \in 1..Len(UpsertEvents) :
    LET e == UpsertEvents[n]
    IN e.node.mapDescription =
         FirstNonEmptyTrimmed(<<e.payload.mapDescription, e.fallback,
                                e.found.mapDescription, e.payload.description>>)

\* a node whose stored long description was empty takes the payload's long
\* description as map-description, the first three candidates being blank
C9_Witness ==
  \E n \in 1..Len(UpsertEvents) :
    LET e == UpsertEvents[n]
    IN /\ e.payload.mapDescription = <<" ">>
       /\ ~Truthy(e.fallback)
       /\ ~Truthy(e.found.mapDescription)
       /\ e.found.description = <<>>
       /\ e.payload.description # <<>>
       /\ e.node.mapDescription = e.payload.description

\* label of the connection source -> target, Null when there is none
StoredLabel(graph, s, t) ==
  LET S == {i \in 1..Len(graph[s].connections) :
              graph[s].connections[i].targetId = graph[t].id}
  IN IF S = {} THEN Null ELSE graph[s].connections[CHOOSE i \in S : TRUE].label

IsBlank(label) == label = Null \/ trim(label) = <<>>

\* C10: when syncExits upserts an exit onto a connection the source already
\* has, a non-blank label replaces the stored label, a blank or missing
\* label leaves the stored label unchanged, and the default label appears
\* only when neither a new nor a stored label exists.
C10_ExitLabelRule ==
  \A n \in 1..Len(ExitEvents) :
    LET e == ExitEvents[n]
        old == StoredLabel(e.mid, e.source, e.target)
        new == StoredLabel(e.after, e.source, e.target)
    IN (HasEdge(e.mid, e.source, e.target) /\ ~e.pathExists) =>
         IF IsBlank(e.exit.label)
         THEN new = IF Truthy(old) THEN old ELSE DEFAULT_EXIT_LABEL
         ELSE new = trim(e.exit.label)

\* number of connections of a shortest route from s to t, for t reached
\* within limit connections
RECURSIVE Distance(_, _, _, _, _)
Distance(graph, s, t, k, limit) ==
  IF t \in Within(graph, {s}, k) \/ k >= limit THEN k
  ELSE Distance(graph, s, t, k + 1, limit)

\* C6: for from # to, getRoute answers exists = true exactly when some route
\* of at most 7 connections leads from from to to, and totalDistance is then
\* the length of a shortest one; otherwise it answers exists = false with an
\* empty path.
C6_RouteExistsAndShortest ==
  (route.done /\ route.fromId # route.toId) =>
    IF route.toId \in Within(world.graph, {route.fromId}, 7)
    THEN /\ route.result.exists
         /\ route.result.totalDistance
              = Distance(world.graph, route.fromId, route.toId, 1, 7)
    ELSE /\ ~route.result.exists
         /\ route.result.path = <<>>

\* a route of exactly seven connections found, in a graph where the bound
\* also cuts a longer one off
C6_Witness ==
  /\ route.done
  /\ route.result.exists
  /\ route.result.totalDistance = 7
  /\ \E t \in Keys(world.graph) :
       /\ t \in Within(world.graph, {route.fromId}, 8)
       /\ t \notin Within(world.graph, {route.fromId}, 7)

RouteShape ==
  LET path == route.result.path
  IN /\ path # <<>>
     /\ path[1].id = route.fromId
     /\ Last(path).id = route.toId
     /\ \A i \in 1..(Len(path) - 1) :
          /\ path[i].id \in Keys(world.graph)
          /\ \E j \in 1..Len(world.graph[path[i].id].connections) :
               world.graph[path[i].id].connections[j].targetId = path[i + 1].id
     /\ route.result.totalDistance = Len(path) - 1

DescribedAs(node, hint) ==
  \/ (node.mapDescription # Null /\ node.mapDescription # <<>>
        /\ normalize(node.mapDescription) = normalize(hint))
  \/ (node.description # Null /\ node.description # <<>>
        /\ normalize(node.description) = normalize(hint))

NamedAs(graph, name) ==
  {k \in Keys(graph) : normalize(graph[k].locationName) = normalize(name)}

\* C11: when a payload's name matches no node but its non-empty
\* map-description equals, after normalisation, the map-description or the
\* long description of an existing node, the payload resolves to an existing
\* node so described and the graph gains no node.
C11_DedupByDescription ==
  \A n \in 1..Len(ResolveEvents) :
    LET e == ResolveEvents[n]
    IN (/\ e.mapDescription # Null /\ e.mapDescription # <<>>
        /\ NamedAs(e.before, e.name) = {}
        /\ \E k \in Keys(e.before) : DescribedAs(e.before[k], e.mapDescription))
       => /\ e.key \in Keys(e.before)
          /\ DescribedAs(e.before[e.key], e.mapDescription)
          /\ e.after = e.before

\* a payload under a new name resolved to a node whose long description, but
\* not its map-description, is the payload's map-description in another case
C11_Witness ==
  \E n \in 1..Len(ResolveEvents) :
    LET e == ResolveEvents[n]
    IN /\ e.mapDescription # Null /\ e.mapDescription # <<>>
       /\ NamedAs(e.before, e.name) = {}
       /\ e.key \in Keys(e.before)
       /\ e.before[e.key].description # e.mapDescription
       /\ normalize(e.before[e.key].description) = normalize(e.mapDescription)
       /\ normalize(e.before[e.key].mapDescription) # normalize(e.mapDescription)
       /\ Len(world.graph) = Len(call.world.graph)

\* identifiers of the items of a collection that bear the name, normalised
IdsOf(items, name) ==
  {items[i].id : i \in {j \in 1..Len(items) :
                          normalize(items[j].name) = normalize(name)}}

\* every item of the collection after the turn whose name was in the
\* collection before the turn has an identifier that name had before
KeepsIds(before, after) ==
  \A i \in 1..Len(after) :
    IdsOf(before, after[i].name) # {}
      => after[i].id \in IdsOf(before, after[i].name)

\* C12: an item whose normalised name is in a collection (the items of one
\* location, or the inventory) before a turn and is in it after the turn,
\* having been emitted for it, has the identifier it had before.
C12_ItemIdentityStable ==
  call.done =>
    /\ KeepsIds(call.character.inventory, character.inventory)
    /\ \A k \in Keys(call.world.graph) :
         KeepsIds(call.world.graph[k].items, world.graph[k].items)

\* result is what replaces the collection existing for the descriptors: one
\* item per descriptor, in their order and with their fields, owned by owner,
\* and none of the existing items that no descriptor names
Replaces(existing, descriptors, result, owner) ==
  /\ Len(result) = Len(descriptors)
  /\ \A i \in 1..Len(result) :
       /\ result[i].name = descriptors[i].name
       /\ result[i].description = descriptors[i].description
       /\ result[i].portable = descriptors[i].portable
       /\ result[i].ownerCharacterId = owner
  /\ \A j \in 1..Len(existing) :
       (\A i \in 1..Len(descriptors) :
          normalize(descriptors[i].name) # normalize(existing[j].name))
         => \A i \in 1..Len(result) :
              /\ result[i].id # existing[j].id
              /\ normalize(result[i].name) # normalize(existing[j].name)

\* C13: mergeItems returns one item per descriptor, in descriptor order; an
\* existing item whose normalised name no descriptor bears is absent from
\* the result; the owner of every item is the character for the inventory
\* and null for the items of a location.
C13_InventoryReplacement ==
  call.done =>
    /\ Replaces(call.character.inventory, call.turn.inventory.items,
                character.inventory, call.character.id)
    /\ \A n \in 1..Len(UpsertEvents) :
         LET e == UpsertEvents[n]
         IN Replaces(e.found.items, e.payload.items, e.node.items, NoId)

\* a turn dropped the lamp from the inventory and from a location while the
\* knife, emitted again, stayed in both
C13_Witness ==
  /\ call.done
  /\ IdsOf(call.character.inventory, <<"l">>) # {}
  /\ IdsOf(character.inventory, <<"l">>) = {}
  /\ IdsOf(character.inventory, <<"k">>) # {}
  /\ IdsOf(character.inventory, <<"k">>) = IdsOf(call.character.inventory, <<"k">>)
  /\ \E n \in 1..Len(UpsertEvents) :
       LET e == UpsertEvents[n]
       IN /\ IdsOf(e.found.items, <<"l">>) # {}
          /\ IdsOf(e.node.items, <<"l">>) = {}
          /\ IdsOf(e.node.items, <<"k">>) # {}

\* no identifier was pushed on the queue twice
EnqueuedOnce ==
  \A i \in 1..Len(route.pushed) : \A j \in 1..Len(route.pushed) :
    route.pushed[i] = route.pushed[j] => i = j

\* no node more than 7 connections away from the start had its connections
\* scanned
BoundedExpansion ==
  \A i \in 1..Len(route.expanded) : route.expanded[i] <= MAX_DEPTH

\* the value the call returned is the value of the function
ReturnsValue ==
  route.done =>
    route.result = IF route.kind = "getRoute"
                   THEN getRoute(route.fromId, route.toId, world.graph)
                   ELSE hasPath(world.graph, route.fromId, route.toId, 2)

\* C14: every call of getRoute and of hasPath returns, on graphs with
\* cycles, self-loops and connections to unknown identifiers alike; on the
\* way no identifier is enqueued twice and no node beyond the bound of 7
\* connections is expanded.
C14_SearchTerminates ==
  /\ <>(route.done)
  /\ [](EnqueuedOnce /\ BoundedExpansion /\ ReturnsValue)

\* a search that returned without finding its target after it met the bound:
\* nodes were left unexpanded on a chain walked in both directions
C14_Witness ==
  /\ route.done
  /\ route.fromId # route.toId
  /\ route.kind = "hasPath"
  /\ route.result = FALSE
  /\ Len(route.expanded) >= MAX_DEPTH
  /\ Len(route.pushed) > Len(route.expanded)
  /\ \E k \in Keys(world.graph) : HasEdge(world.graph, k, k)
  /\ \E k \in Keys(world.graph) : k > 1 /\ HasEdge(world.graph, k, k - 1)

\* positions of the entries of an author
EntriesBy(entries, author) ==
  {i \in 1..Len(entries) : entries[i].author = author}

\* C15: applyGameTurn returns at most two entries; there is a player entry
\* exactly when isInitial is false and the trimmed player message is not
\* empty, and it comes before the narrator's entry; the returned world and
\* character have the identifiers of the inputs.
C15_EntriesAndIdentifiers ==
  call.done =>
    LET entries == call.result.newEntries
    IN /\ Len(entries) <= 2
       /\ EntriesBy(entries, "player") # {}
            <=> (~call.isInitial /\ trim(call.playerMessage) # <<>>)
       /\ \A i \in EntriesBy(entries, "player") :
            \E j \in EntriesBy(entries, "gm") : i < j
       /\ call.result.world.id = call.world.id
       /\ call.result.character.id = call.character.id

\* a later turn with a message that has trailing whitespace returned the
\* player's entry, trimmed, and then the narrator's
C15_Witness ==
  /\ call.done
  /\ call.character.currentLocationId # NoId
  /\ ~call.isInitial
  /\ call.playerMessage # trim(call.playerMessage)
  /\ Len(call.result.newEntries) = 2
  /\ call.result.newEntries[1].author = "player"
  /\ call.result.newEntries[1].message = trim(call.playerMessage)
  /\ call.result.newEntries[2].author = "gm"

\* C16: a node whose discovered flag is true has it true after every later
\* applyGameTurn call, whether the turn lists the node as a discovery, names
\* it as the target of an exit, or does not mention it.
C16_DiscoveredMonotone ==
  [][\A k \in Keys(world.graph) :
       world.graph[k].discovered
         => (k \in Keys(world'.graph) /\ world'.graph[k].discovered)]_vars

\* a discovered place the character had left was listed as a discovery and
\* named as the target of an exit in one turn, and is still discovered
C16_Witness ==
  /\ call.done
  /\ \E k \in Keys(call.world.graph) \ {call.result.playerKey} :
       /\ call.world.graph[k].discovered
       /\ world.graph[k].discovered
       /\ \E n \in 2..Len(UpsertEvents) : UpsertEvents[n].key = k
       /\ \E n \in 1..Len(ExitEvents) : ExitEvents[n].target = k

\* targets of the connections stored on node k
TargetsOf(graph, k) ==
  {graph[k].connections[i].targetId : i \in 1..Len(graph[k].connections)}

\* C17: applyGameTurn deletes nothing from the graph: every location of the
\* input graph is in the output graph under the same key and identifier, and
\* every connection of the input graph is still on its source, to the same
\* target.
C17_NothingDeleted ==
  call.done =>
    \A k \in Keys(call.world.graph) :
      /\ k \in Keys(world.graph)
      /\ world.graph[k].id = call.world.graph[k].id
      /\ TargetsOf(call.world.graph, k) \subseteq TargetsOf(world.graph, k)

\* a turn added a place and gave a node that already had a connection one
\* more
C17_Witness ==
  /\ call.done
  /\ Len(world.graph) > Len(call.world.graph)
  /\ \E k \in Keys(call.world.graph) :
       /\ TargetsOf(call.world.graph, k) # {}
       /\ TargetsOf(call.world.graph, k) # TargetsOf(world.graph, k)

\* C18: in every state reached from createWorld by applyGameTurn calls whose
\* graph has a location, entryLocationId is a key of the graph; no
\* applyGameTurn call changes entryLocationId.
C18_EntryLocationResolves ==
  /\ [](Len(world.graph) >= 1 =>
          /\ world.entryLocationId \in Keys(world.graph)
          /\ world.graph[world.entryLocationId].id = world.entryLocationId)
  /\ [][world'.entryLocationId = world.entryLocationId]_vars

\* the graph has grown by two places and the character stands elsewhere;
\* the entry location is the node createWorld made
C18_Witness ==
  /\ call.done
  /\ Len(world.graph) >= 3
  /\ character.currentLocationId # world.entryLocationId
  /\ world.entryLocationId = call.world.entryLocationId
  /\ world.graph[world.entryLocationId].locationName = ENTRY_NAME

\* number of occurrences of an identifier in a list
Occurrences(ids, id) == Cardinality({i \in 1..Len(ids) : ids[i] = id})

\* C19: after an applyGameTurn call the character's currentWorldId is the
\* world's id, its currentLocationId is the id of the node that
\* turn.playerLocation resolved to and a key of the graph, and the character
\* is listed once among the world's owners when it was listed at most once
\* before.
C19_CharacterPointers ==
  call.done =>
    /\ character.currentWorldId = world.id
    /\ ResolveEvents[1].name = call.turn.playerLocation.name
    /\ character.currentLocationId = world.graph[ResolveEvents[1].key].id
    /\ character.currentLocationId \in Keys(world.graph)
    /\ Occurrences(call.world.ownerCharacterIds, character.id) <= 1
         => Occurrences(world.ownerCharacterIds, character.id) = 1

\* a character already listed as owner moved to another place: its pointer
\* follows and it is still listed once
C19_Witness ==
  /\ call.done
  /\ Occurrences(call.world.ownerCharacterIds, character.id) = 1
  /\ Occurrences(world.ownerCharacterIds, character.id) = 1
  /\ call.character.currentLocationId # NoId
  /\ character.currentLocationId # call.character.currentLocationId

\* key of the node of a match in the graph's node collection
KeyOf(graph, id) == CHOOSE k \in Keys(graph) : graph[k].id = id

\* C20: findLocationByName returns at most 5 matches, each of similarity
\* above 0.3, in order of non-increasing similarity, and matches of the same
\* similarity in the order of the graph's node collection.
C20_RankedMatches ==
  route.done =>
    LET result == route.result
    IN /\ Len(result) <= 5
       /\ \A i \in 1..Len(result) : result[i].similarity * 10 > 3 * SIMILARITY_UNIT
       /\ \A i \in 1..Len(result) : \A j \in 1..Len(result) :
            i < j =>
              /\ result[i].similarity >= result[j].similarity
              /\ result[i].similarity = result[j].similarity
                   => KeyOf(world.graph, result[i].id)
                        < KeyOf(world.graph, result[j].id)

\* more than five places matched; the five returned are of three
\* similarities, two of them equal, and not in the order of the graph
C20_Witness ==
  /\ route.done
  /\ Len(route.result) = 5
  /\ Cardinality({k \in Keys(world.graph) :
                    similarity(world.graph[k], trim(toLowerCase(route.rawName)))
                      > THRESHOLD}) > 5
  /\ Cardinality({route.result[i].similarity : i \in 1..5}) >= 3
  /\ \E i \in 1..4 : route.result[i].similarity = route.result[i + 1].similarity
  /\ \E i \in 1..4 : route.result[i].id > route.result[i + 1].id

\* a route of 2 to 7 connections from s to t that passes a node other than
\* s and t
RouteThroughAnother(graph, s, t) ==
  \E i \in 1..(MAX_DEPTH - 1) :
    \E u \in Within(graph, {s}, i) \ {s, t} :
      t \in Within(graph, {u}, MAX_DEPTH - i)

\* C21: hasPath(graph, from, to, 2), as syncExits calls it, returns true only
\* when the graph holds a route of 2 to 7 connections from from to to that
\* passes a node other than from and to.
C21_HasPathNeedsIntermediate ==
  \A n \in 1..Len(ExitEvents) :
    LET e == ExitEvents[n]
    IN e.pathExists =>
         RouteThroughAnother(e.mid, e.mid[e.source].id, e.mid[e.target].id)

\* the location of the character before the last turn: its own pointer, else
\* the world's entry location
LocationBefore ==
  IF call.character.currentLocationId # NoId
  THEN call.character.currentLocationId
  ELSE call.world.entryLocationId

\* the entry's actionSummary is a summary record, not null
HasSummary(entry) == Cardinality(DOMAIN entry.actionSummary) > 1

\* C22: the narrator's entry has an action summary exactly when the turn is
\* not initial, the trimmed player message is not empty and the resolved
\* player location is the character's previous location; the summary
\* carries that location; the player's entry never has a summary.
C22_ActionSummary ==
  call.done =>
    LET entries == call.result.newEntries
    IN \A i \in 1..Len(entries) :
         IF entries[i].author = "gm"
         THEN /\ HasSummary(entries[i])
                   <=> /\ ~call.isInitial
                       /\ trim(call.playerMessage) # <<>>
                       /\ ResolvedPlayerLocationId = LocationBefore
              /\ HasSummary(entries[i])
                   => /\ entries[i].actionSummary.locationId = LocationBefore
                      /\ entries[i].actionSummary.playerMessage
                           = trim(call.playerMessage)
         ELSE ~HasSummary(entries[i])

\* the first turn of a character without a location acted at the world's
\* entry location
C22_Witness ==
  /\ call.done
  /\ call.character.currentLocationId = NoId
  /\ HasSummary(Last(call.result.newEntries))
  /\ Last(call.result.newEntries).actionSummary.locationId
       = call.world.entryLocationId

\* positions of the connections of node s whose target is node t
ConnectionsTo(graph, s, t) ==
  {i \in 1..Len(graph[s].connections) :
     graph[s].connections[i].targetId = graph[t].id}

\* C23: an exit whose name is, normalised, the source node's own name
\* resolves to the source node, and after it the source holds exactly one
\* connection to itself, whether the exit is bidirectional or not and
\* whether the connection was there before or not.
C23_SelfLoopExit ==
  \A n \in 1..Len(ExitEvents) :
    LET e == ExitEvents[n]
    IN normalize(e.exit.name) = normalize(e.before[e.source].locationName)
         => /\ e.target = e.source
            /\ e.mid = e.before
            /\ Cardinality(ConnectionsTo(e.after, e.source, e.source)) = 1

\* a bidirectional exit of a place to itself, under another spelling of its
\* name, met the self-loop an earlier turn had made
C23_Witness ==
  \E n \in 1..Len(ExitEvents) :
    LET e == ExitEvents[n]
    IN /\ e.exit.bidirectional
       /\ e.exit.name # e.before[e.source].locationName
       /\ e.target = e.source
       /\ Cardinality(ConnectionsTo(e.before, e.source, e.source)) = 1
       /\ Cardinality(ConnectionsTo(e.after, e.source, e.source)) = 1
       /\ Len(e.after[e.source].connections) > 1

\* the request has received the narrator's turn
HasTurn(request) == Cardinality(DOMAIN request.turn) > 1

\* the request names a world or a character that is not stored
UnknownIds(request) ==
  request.worldId # world.id \/ request.characterId # character.id

\* C24: a request that names an unknown world or character ends with the
\* not-found response (status 404), and a request whose narrator turn fails
\* schema validation ends with the invalid-data response (status 400); a
\* request answered with an error has executed neither saveWorld nor
\* saveCharacter, and the step that answers it leaves the stored world and
\* character as they were.
C24_FailuresSaveNothing ==
  [][\A r \in DOMAIN requests :
       (requests[r].pc # "done" /\ requests'[r].pc = "done")
       => /\ UnknownIds(requests[r])
               => /\ requests'[r].status = 404
                  /\ requests'[r].error \in
                       {WorldNotFound.message, CharacterNotFound.message}
          /\ (HasTurn(requests'[r])
                /\ ~LLMGameTurnSchema_success(requests'[r].turn))
               => /\ requests'[r].status = 400
                  /\ requests'[r].error = "invalid data"
          /\ requests'[r].status # 200
               => /\ requests'[r].error # ""
                  /\ requests'[r].writes = <<>>
                  /\ world' = world
                  /\ character' = character]_vars

\* one request answered 404 for its unknown character and another answered
\* 400 for a turn without a location name
C24_Witness ==
  \E r1 \in DOMAIN requests, r2 \in DOMAIN requests :
    /\ requests[r1].pc = "done" /\ requests[r1].status = 404
    /\ requests[r1].worldId = world.id
    /\ requests[r1].characterId # character.id
    /\ requests[r2].pc = "done" /\ requests[r2].status = 400
    /\ HasTurn(requests[r2])
    /\ requests[r2].turn.playerLocation.name = <<>>

\* C25: after applyGameTurn every exit named in the playerLocation payload
\* leads to a node that getRoute finds from the character's new location.
C25_DeclaredExitsReachable ==
  \A n \in 1..Len(ExitEvents) :
    LET e == ExitEvents[n]
    IN e.source = KeyOf(world.graph, character.currentLocationId)
       /\ getRoute(character.currentLocationId, e.after[e.target].id,
                   world.graph).exists

\* an exit was skipped for an indirect route of exactly MAX_DEPTH connections
C25_Witness ==
  \E n \in 1..Len(ExitEvents) :
    LET e == ExitEvents[n]
    IN /\ e.pathExists
       /\ ~HasEdge(world.graph, e.source, e.target)
       /\ getRoute(character.currentLocationId, e.after[e.target].id,
                   world.graph).totalDistance = MAX_DEPTH

\* C26: in every graph reached from createWorld by applyGameTurn calls, every
\* node's id field is the key it is stored under and every connection's
\* targetId is a key of the graph.
C26_ReferentialIntegrity ==
  \A k \in Keys(world.graph) :
    /\ world.graph[k].id = k
    /\ \A i \in 1..Len(world.graph[k].connections) :
         world.graph[k].connections[i].targetId \in Keys(world.graph)

\* a node created by a turn is the target of a connection of another created
\* node
C26_Witness ==
  \E s \in Keys(world.graph), t \in Keys(world.graph) :
    /\ s # t /\ s # world.entryLocationId /\ t # world.entryLocationId
    /\ \E i \in 1..Len(world.graph[s].connections) :
         world.graph[s].connections[i].targetId = t

\* the connections that node k held in graph before are, position by
\* position, connections of the same identifier and target in graph after
KeepsConnections(before, after, k) ==
  /\ Len(before[k].connections) <= Len(after[k].connections)
  /\ \A i \in 1..Len(before[k].connections) :
       /\ after[k].connections[i].id = before[k].connections[i].id
       /\ after[k].connections[i].targetId = before[k].connections[i].targetId

\* C27: no node holds two connections with the same targetId, and the
\* upserts made for an exit leave every connection that existed before them
\* at its position with its identifier.
C27_NoDuplicateEdges ==
  /\ \A k \in Keys(world.graph) :
       \A i, j \in 1..Len(world.graph[k].connections) :
         world.graph[k].connections[i].targetId
           = world.graph[k].connections[j].targetId => i = j
  /\ \A n \in 1..Len(ExitEvents) :
       LET e == ExitEvents[n]
       IN \A k \in Keys(e.mid) : KeepsConnections(e.mid, e.after, k)

\* an exit was upserted onto a connection that was not the last of its node,
\* and changed it
C27_Witness ==
  \E n \in 1..Len(ExitEvents) :
    LET e == ExitEvents[n]
    IN /\ ~e.pathExists
       /\ \E i \in 1..(Len(e.mid[e.source].connections) - 1) :
            /\ e.mid[e.source].connections[i].targetId = e.mid[e.target].id
            /\ e.after[e.source].connections[i]
                 # e.mid[e.source].connections[i]

\* the items of the list have pairwise distinct identifiers
DistinctIds(items) ==
  \A i, j \in 1..Len(items) : items[i].id = items[j].id => i = j

\* C28 (as stated): the identifiers of the items of every location and of
\* the character's inventory are pairwise distinct.
C28_ItemIdsDistinct ==
  /\ DistinctIds(character.inventory)
  /\ \A k \in Keys(world.graph) : DistinctIds(world.graph[k].items)

\* the normalised names of the locations of the graph
LocationNames(graph) ==
  {normalize(graph[k].locationName) : k \in Keys(graph)}

\* the connections of the graph, as pairs of normalised location names
ConnectionNames(graph) ==
  UNION {{<<normalize(graph[k].locationName),
            normalize(graph[graph[k].connections[i].targetId].locationName)>> :
            i \in 1..Len(graph[k].connections)} : k \in Keys(graph)}

\* the request has been answered with the saved world and character
Succeeded(request) == request.pc = "done" /\ request.status = 200

\* the stored world holds what the request's turn added to the world it loaded
Persisted(request) ==
  /\ LocationNames(request.updatedWorld.graph)
       \ LocationNames(request.world.graph) \subseteq LocationNames(world.graph)
  /\ ConnectionNames(request.updatedWorld.graph)
       \ ConnectionNames(request.world.graph)
       \subseteq ConnectionNames(world.graph)

\* C29 (as stated): when two requests that loaded the same stored world have
\* both been answered, the stored world holds every location and connection
\* added by the turn of either.
C29_NoLostUpdate ==
  \A r1 \in DOMAIN requests, r2 \in DOMAIN requests :
    (r1 # r2 /\ Succeeded(requests[r1]) /\ Succeeded(requests[r2])
       /\ requests[r1].world = requests[r2].world)
    => Persisted(requests[r1]) /\ Persisted(requests[r2])

\* the call has made at most MAX_FUNCTION_CALLS tool calls, at most one for
\* each response it has examined, and has examined no response twice
BoundedToolCalls ==
  /\ Len(route.toolLogs) <= MAX_FUNCTION_CALLS
  /\ Len(route.toolLogs) <= route.iterationCount
  /\ route.iterationCount <= route.received

\* the call has ended by returning a parsed turn taken from a response
\* without a function call, or by throwing
ReturnedOrThrew ==
  route.done =>
    IF route.returned
    THEN /\ Len(route.value) = 1
         /\ LET parts == route.currentResponse[1].candidates[1].content[1].parts
            IN /\ \A i \in 1..Len(parts) : parts[i].functionCall = <<>>
               /\ \E i \in 1..Len(parts) :
                    /\ parts[i].text # <<>>
                    /\ route.value[1] = LLMGameTurnSchema_parse(parts[i].text[1])
    ELSE route.error # "" /\ route.value = <<>>

\* five tool calls were made and the answer to the fifth tool result has
\* arrived: the call threw the call-limit error
LimitErrorAfterFive ==
  (route.done /\ Len(route.toolLogs) = MAX_FUNCTION_CALLS
     /\ route.received = MAX_FUNCTION_CALLS + 1)
  => (~route.returned /\ route.error = LIMIT_ERROR)

\* C30 (as stated): generateTurn makes at most 5 tool calls, at most one for
\* each model response, ends by returning a parsed turn or by throwing, and
\* throws the call-limit error whenever each of the first five responses
\* requested a tool.
C30_ToolLoopAlways ==
  /\ BoundedToolCalls
  /\ ReturnedOrThrew
  /\ (route.done /\ Len(route.toolLogs) = MAX_FUNCTION_CALLS)
       => (~route.returned /\ route.error = LIMIT_ERROR)

\* C30: every call of generateTurn ends, by returning a parsed turn taken
\* from a response without a function call or by throwing; it makes at most
\* 5 tool calls, at most one for each model response; and when each of the
\* first five responses requested a tool and the answer to the fifth tool
\* result has arrived, it throws the call-limit error.
C30_ToolLoopBounded ==
  /\ <>(route.done)
  /\ [](BoundedToolCalls /\ ReturnedOrThrew /\ LimitErrorAfterFive)

\* five responses each requested a tool, in the first part or after an empty
\* one, a sixth response arrived, and the call threw the call-limit error
C30_Witness ==
  /\ route.done
  /\ Len(route.toolLogs) = MAX_FUNCTION_CALLS
  /\ route.received = MAX_FUNCTION_CALLS + 1
  /\ route.error = LIMIT_ERROR
  /\ \E i \in 1..MAX_FUNCTION_CALLS :
       route.toolLogs[i].toolName = "get_route"

====
